---- MODULE Spec2Model ----
(***************************************************************************)
(* Model of the IAM policy enforcement plugin                              *)
(* (src/iam/policy_enforcement.py, class PolicyEnforcementPlugin).         *)
(*                                                                         *)
(* Strings on which the code performs character operations (strip, lower,  *)
(* split, join, startswith) are sequences of one-character strings.  The   *)
(* compact serialisation of a JWT is one opaque symbol of such a sequence. *)
(* Python values are tagged records: NoneV, Str(s), List(l), Ptr(n, c).    *)
(***************************************************************************)
EXTENDS Integers, Sequences, FiniteSets, TLC

\* ------------------------------------------------------------------
\* Bounds of the model
\* ------------------------------------------------------------------
\* number of tenants of the deployment, and longest list-valued tenant claim
MaxTenants == 2

\* ------------------------------------------------------------------
\* Python values
\* ------------------------------------------------------------------
NoneV == [t |-> "none"]
Str(s) == [t |-> "str", s |-> s]
List(l) == [t |-> "list", l |-> l]
IntV(n) == [t |-> "int", n |-> n]
BoolV(b) == [t |-> "bool", b |-> b]

EmptyStr == << >>

\* truthiness of a value: None, "" and [] are falsy
Truthy(v) ==
  CASE v.t = "none" -> FALSE
    [] v.t = "str" -> v.s # EmptyStr
    [] v.t = "list" -> v.l # << >>
    [] v.t = "int" -> v.n # 0
    [] v.t = "bool" -> v.b
    [] OTHER -> TRUE

\* isinstance(v, int): bool is a subclass of int
IsInt(v) == v.t \in {"int", "bool"}
IntOf(v) == IF v.t = "bool" THEN (IF v.b THEN 1 ELSE 0) ELSE v.n

\* ------------------------------------------------------------------
\* str methods
\* ------------------------------------------------------------------
LowerChar(c) ==
  CASE c = "A" -> "a"
    [] c = "B" -> "b"
    [] c = "C" -> "c"
    [] c = "D" -> "d"
    [] c = "E" -> "e"
    [] c = "O" -> "o"
    [] c = "U" -> "u"
    [] c = "X" -> "x"
    [] c = "Z" -> "z"
    [] OTHER -> c

Lower(s) == [i \in 1..Len(s) |-> LowerChar(s[i])]

RECURSIVE LStrip(_)
LStrip(s) == IF s # << >> /\ Head(s) = " " THEN LStrip(Tail(s)) ELSE s

RECURSIVE RStrip(_)
RStrip(s) ==
  IF s # << >> /\ s[Len(s)] = " " THEN RStrip(SubSeq(s, 1, Len(s) - 1)) ELSE s

Strip(s) == RStrip(LStrip(s))

StartsWith(s, p) == Len(s) >= Len(p) /\ SubSeq(s, 1, Len(p)) = p

\* s.split(","): the pieces between the commas, empty pieces included
RECURSIVE SplitComma(_, _)
SplitComma(s, cur) ==
  IF s = << >> THEN << cur >>
  ELSE IF Head(s) = "," THEN << cur >> \o SplitComma(Tail(s), << >>)
  ELSE SplitComma(Tail(s), Append(cur, Head(s)))

\* ",".join(parts)
RECURSIVE JoinComma(_)
JoinComma(parts) ==
  IF parts = << >> THEN << >>
  ELSE IF Len(parts) = 1 THEN parts[1]
  ELSE parts[1] \o << "," >> \o JoinComma(Tail(parts))

\* s.split(): the whitespace-separated words of s
RECURSIVE SplitWords(_, _)
SplitWords(s, cur) ==
  IF s = << >> THEN (IF cur = << >> THEN << >> ELSE << cur >>)
  ELSE IF Head(s) = " "
       THEN (IF cur = << >> THEN << >> ELSE << cur >>) \o SplitWords(Tail(s), << >>)
       ELSE SplitWords(Tail(s), Append(cur, Head(s)))

Range(f) == {f[i] : i \in DOMAIN f}

\* ------------------------------------------------------------------
\* _sanitize_bearer
\* ------------------------------------------------------------------
BearerPrefix == << "b", "e", "a", "r", "e", "r", " " >>

\* str(obj) of a container: its repr, an opaque non-empty string
ReprStr == << "{", "}" >>

sanitize_bearer(token) ==
  IF ~Truthy(token) THEN EmptyStr
  ELSE LET token_str == Strip(IF token.t = "str" THEN token.s ELSE ReprStr)
       IN IF StartsWith(Lower(token_str), BearerPrefix)
          THEN Strip(SubSeq(token_str, 8, Len(token_str)))
          ELSE token_str

\* ------------------------------------------------------------------
\* Names used by the deployment
\* ------------------------------------------------------------------
AllTenantNames == << << "A" >>, << "B" >>, << "C" >> >>
TenantNames == SubSeq(AllTenantNames, 1, MaxTenants)

\* a tenant nobody ever provisions
tenantX == << "X" >>

agentO == << "O" >>
agentD == << "D" >>
agentE == << "E" >>
agentZ == << "Z" >>

ToolNames == {"call_remote_agent", "get_status"}

roleAdmin == << "a", "d", "m", "i", "n" >>
roleUser == << "u", "s", "e", "r" >>

\* ------------------------------------------------------------------
\* Credentials: the tokens the issuer or an attacker can present
\* ------------------------------------------------------------------
KeyGood == "k1"
KeyOther == "kx"
AudGood == "a1"

\* wf: three base64url segments that parse; alg/key: header algorithm and
\* the key the signature was made with; expired: exp lies in the past
JWT ==
  [ Ta |-> [wf |-> TRUE, alg |-> "HS256", key |-> KeyGood, expired |-> FALSE,
            claims |-> [sub |-> Str(<< "u", "1" >>), tenant |-> Str(<< "A" >>),
                        roles |-> List(<< Str(roleAdmin) >>)]],
    Tl |-> [wf |-> TRUE, alg |-> "HS256", key |-> KeyGood, expired |-> FALSE,
            claims |-> [sub |-> Str(<< "u", "2" >>),
                        tenant |-> List([i \in 1..MaxTenants |-> Str(TenantNames[i])]),
                        roles |-> List(<< Str(roleUser) >>)]],
    Tn |-> [wf |-> TRUE, alg |-> "HS256", key |-> KeyGood, expired |-> FALSE,
            claims |-> [sub |-> Str(<< "u", "3" >>),
                        roles |-> List(<< Str(roleAdmin) >>)]],
    Tx |-> [wf |-> TRUE, alg |-> "HS256", key |-> KeyGood, expired |-> FALSE,
            claims |-> [tenant |-> Str(tenantX), roles |-> Str(roleAdmin)]],
    Tf |-> [wf |-> TRUE, alg |-> "HS256", key |-> KeyOther, expired |-> FALSE,
            claims |-> [sub |-> Str(<< "u", "4" >>), tenant |-> Str(<< "A" >>),
                        roles |-> List(<< Str(roleAdmin) >>)]],
    Te |-> [wf |-> TRUE, alg |-> "HS256", key |-> KeyGood, expired |-> TRUE,
            claims |-> [tenant |-> Str(<< "A" >>), roles |-> List(<< Str(roleAdmin) >>)]],
    Tu |-> [wf |-> TRUE, alg |-> "none", key |-> "", expired |-> FALSE,
            claims |-> [tid |-> Str(<< "A" >>), scope |-> Str(roleUser)]],
    Td |-> [wf |-> TRUE, alg |-> "HS256", key |-> KeyGood, expired |-> FALSE,
            claims |-> [aud |-> Str(<< "a", "1" >>), tenant |-> Str(<< " ", "A" >>),
                        roles |-> List(<< Str(roleUser) >>)]],
    Tm |-> [wf |-> FALSE, alg |-> "", key |-> "", expired |-> FALSE,
            claims |-> [sub |-> Str(<< "u", "5" >>)]],
    Tb |-> [wf |-> TRUE, alg |-> "HS256", key |-> KeyGood, expired |-> FALSE,
            claims |-> [sub |-> Str(<< "u", "6" >>), tenant |-> Str(<< "B" >>),
                        roles |-> List(<< Str(roleAdmin) >>)]] ]

TokenNames == DOMAIN JWT

\* the audience string a configured JWT_AUDIENCE stands for
AudClaim(aud) == IF aud = AudGood THEN Str(<< "a", "1" >>) ELSE NoneV

NoClaims == [k \in {} |-> NoneV]

\* claims.get(key)
ClaimGet(claims, key) == IF key \in DOMAIN claims THEN claims[key] ELSE NoneV

\* ------------------------------------------------------------------
\* _decode_jwt (jwt.decode as PyJWT 2 performs it)
\* ------------------------------------------------------------------
\* jwt.decode(token, key=key, options={"verify_signature": True},
\*            algorithms=[alg], audience=aud): the claims, or a raise
JwtVerifies(j, key, alg, aud) ==
  /\ j.wf
  /\ j.alg = alg
  /\ j.key = key
  /\ ~j.expired
  /\ IF aud # "" THEN ClaimGet(j.claims, "aud") = AudClaim(aud)
                 ELSE ~Truthy(ClaimGet(j.claims, "aud"))

\* the token string names a token of the catalogue, or is garbage
IsJwtString(token) == Len(token) = 1 /\ token[1] \in TokenNames

\* variant: a token that fails verification is decoded unverified instead
decode_jwt_fallback(cfg, token) ==
  IF ~IsJwtString(token) THEN NoClaims
  ELSE IF JWT[token[1]].wf THEN JWT[token[1]].claims ELSE NoClaims

\* variant: expiry is enforced even when no verification key is configured
decode_jwt_expiry(cfg, token) ==
  LET key == IF cfg.jwt_public_key # "" THEN cfg.jwt_public_key ELSE cfg.jwt_secret
  IN IF ~IsJwtString(token) THEN NoClaims
     ELSE LET j == JWT[token[1]]
          IN IF key # ""
             THEN (IF JwtVerifies(j, key, cfg.jwt_algorithm, cfg.jwt_audience)
                   THEN j.claims ELSE NoClaims)
             ELSE (IF j.wf /\ ~j.expired THEN j.claims ELSE NoClaims)

decode_jwt(cfg, token) ==
  LET key == IF cfg.jwt_public_key # "" THEN cfg.jwt_public_key ELSE cfg.jwt_secret
  IN IF ~IsJwtString(token) THEN NoClaims
     ELSE LET j == JWT[token[1]]
          IN IF key # ""
             THEN (IF JwtVerifies(j, key, cfg.jwt_algorithm, cfg.jwt_audience)
                   THEN j.claims ELSE NoClaims)
             ELSE (IF j.wf THEN j.claims ELSE NoClaims)

\* ------------------------------------------------------------------
\* _extract_tenant_from_claims
\* ------------------------------------------------------------------
NoTenant == << "<", "n", "o", "_", "t", "e", "n", "a", "n", "t", ">" >>

\* the fallback loop: val is the first truthy of tid, tenant_id, org_id,
\* else whatever the last key holds
FallbackTenant(claims) ==
  IF Truthy(ClaimGet(claims, "tid")) THEN ClaimGet(claims, "tid")
  ELSE IF Truthy(ClaimGet(claims, "tenant_id")) THEN ClaimGet(claims, "tenant_id")
  ELSE ClaimGet(claims, "org_id")

\* str(v) of a claim value
StrOf(v) == IF v.t = "str" THEN v.s ELSE ReprStr

\* variant: a claim set without a tenant falls back to a default tenant
extract_tenant_from_claims_default(claims) ==
  LET val0 == ClaimGet(claims, "tenant")
      val == IF val0.t = "none" THEN FallbackTenant(claims) ELSE val0
  IN IF val.t = "none" THEN TenantNames[1]
     ELSE IF val.t = "list"
          THEN JoinComma([i \in 1..Len(val.l) |-> StrOf(val.l[i])])
          ELSE Strip(StrOf(val))

\* variant: a list-valued claim yields its first element only
extract_tenant_from_claims_first(claims) ==
  LET val0 == ClaimGet(claims, "tenant")
      val == IF val0.t = "none" THEN FallbackTenant(claims) ELSE val0
  IN IF val.t = "none" THEN NoTenant
     ELSE IF val.t = "list"
          THEN (IF val.l = << >> THEN << >> ELSE StrOf(val.l[1]))
          ELSE Strip(StrOf(val))

extract_tenant_from_claims(claims) ==
  LET val0 == ClaimGet(claims, "tenant")
      val == IF val0.t = "none" THEN FallbackTenant(claims) ELSE val0
  IN IF val.t = "none" THEN NoTenant
     ELSE IF val.t = "list"
          THEN JoinComma([i \in 1..Len(val.l) |-> StrOf(val.l[i])])
          ELSE Strip(StrOf(val))

\* ------------------------------------------------------------------
\* The policy source: the files iam/<tenant>.json
\* ------------------------------------------------------------------
Absent == [t |-> "absent"]
\* the file exists but json.load raises on it
Corrupt == [t |-> "corrupt"]
PolicyFile(allowed_list) == [t |-> "json", allowed_list |-> allowed_list]

Rule(aid, tools) == [agent_id |-> aid, allowed_tools |-> tools]

\* the document an operator provisions for a tenant
ProvisionedFile(stem) ==
  CASE stem = << "a" >> ->
         PolicyFile(<< Rule(Str(agentO), {"call_remote_agent"}),
                       Rule(Str(<< " ", "D" >>), {"get_status"}) >>)
    [] stem = << "b" >> ->
         PolicyFile(<< Rule(Str(agentO), {"get_status"}),
                       Rule(NoneV, {"call_remote_agent"}),
                       Rule(Str(agentE), {"get_status"}) >>)
    [] OTHER ->
         PolicyFile(<< Rule(Str(agentD), {"call_remote_agent"}),
                       Rule(Str(agentE), {"call_remote_agent"}) >>)

FileStems == {Lower(TenantNames[i]) : i \in 1..MaxTenants}

\* os.path.exists(policy_path)
FileExists(fs, stem) == stem \in DOMAIN fs /\ fs[stem] # Absent

\* ------------------------------------------------------------------
\* _get_policy_for_tenant
\* ------------------------------------------------------------------
\* the falsy {} returned when no constituent tenant has a document
NoPolicy == [t |-> "empty"]

\* position of the rule of agent aid in a rule list, 0 when there is none
RECURSIVE IndexOfAgent(_, _, _)
IndexOfAgent(rules, aid, i) ==
  IF i > Len(rules) THEN 0
  ELSE IF rules[i].agent_id = aid THEN i
  ELSE IndexOfAgent(rules, aid, i + 1)

\* variant: a later document's tools replace the ones merged so far
MergeRule_overwrite(acc, rule) ==
  IF ~Truthy(rule.agent_id) THEN acc
  ELSE LET clean_aid == Strip(StrOf(rule.agent_id))
           i == IndexOfAgent(acc.map, clean_aid, 1)
       IN [ map |-> IF i # 0
                    THEN [acc.map EXCEPT ![i].allowed_tools = rule.allowed_tools]
                    ELSE Append(acc.map, Rule(clean_aid, rule.allowed_tools)),
            targets |-> acc.targets \cup {clean_aid},
            found |-> acc.found ]

\* lines 117-134: one rule of a file merged into merged_agent_map / valid_targets
MergeRule(acc, rule) ==
  IF ~Truthy(rule.agent_id) THEN acc
  ELSE LET clean_aid == Strip(StrOf(rule.agent_id))
           i == IndexOfAgent(acc.map, clean_aid, 1)
       IN [ map |-> IF i # 0
                    THEN [acc.map EXCEPT ![i].allowed_tools = @ \cup rule.allowed_tools]
                    ELSE Append(acc.map, Rule(clean_aid, rule.allowed_tools)),
            targets |-> acc.targets \cup {clean_aid},
            found |-> acc.found ]

\* "allowed_tools": null, a value set() and set.update() cannot iterate
NotIterable == {"<null>"}

\* lines 126-134 raise TypeError on the rule
RuleRaises(rule) == Truthy(rule.agent_id) /\ rule.allowed_tools = NotIterable

\* the rule that raises: its agent is already in valid_targets (line 123),
\* merged_agent_map is as it was
MergeRuleRaised(acc, rule) ==
  [acc EXCEPT !.targets = @ \cup {Strip(StrOf(rule.agent_id))}]

\* lines 117-136: the rules of one file in order; an exception ends the
\* file (except at line 135) and keeps what was merged before it
RECURSIVE MergeRules(_, _)
MergeRules(acc, rules) ==
  IF rules = << >> THEN acc
  ELSE IF RuleRaises(Head(rules)) THEN MergeRuleRaised(acc, Head(rules))
  ELSE MergeRules(MergeRule(acc, Head(rules)), Tail(rules))

\* lines 101-136: one constituent tenant of the key
MergeTenant(fs, acc, tenant_read) ==
  LET tenant_clean == Strip(tenant_read)
      stem == Lower(tenant_clean)
  IN IF tenant_clean = << >> THEN acc
     ELSE IF ~FileExists(fs, stem) THEN acc
     ELSE IF fs[stem] = Corrupt THEN acc
     ELSE MergeRules([acc EXCEPT !.found = TRUE], fs[stem].allowed_list)

RECURSIVE MergeTenants(_, _, _)
MergeTenants(fs, acc, parts) ==
  IF parts = << >> THEN acc
  ELSE MergeTenants(fs, MergeTenant(fs, acc, Head(parts)), Tail(parts))

\* the cold load: the merged document, or NoPolicy
LoadPolicy(fs, tenant_str) ==
  LET acc == MergeTenants(fs, [map |-> << >>, targets |-> {}, found |-> FALSE],
                          SplitComma(tenant_str, << >>))
  IN IF acc.found
     THEN [t |-> "merged_policy", tenant |-> tenant_str,
           allowed_list |-> acc.map, valid_targets |-> acc.targets]
     ELSE NoPolicy

\* variant: an empty result is cached like a document
get_policy_for_tenant_cache_empty(cache, fs, tenant_str) ==
  IF tenant_str \in DOMAIN cache
  THEN [doc |-> cache[tenant_str], cache |-> cache, cold |-> FALSE]
  ELSE [doc |-> LoadPolicy(fs, tenant_str),
        cache |-> [k \in DOMAIN cache \cup {tenant_str} |->
                     IF k = tenant_str THEN LoadPolicy(fs, tenant_str) ELSE cache[k]],
        cold |-> TRUE]

\* variant: the merged document is returned but never stored
get_policy_for_tenant_nostore(cache, fs, tenant_str) ==
  IF tenant_str \in DOMAIN cache
  THEN [doc |-> cache[tenant_str], cache |-> cache, cold |-> FALSE]
  ELSE [doc |-> LoadPolicy(fs, tenant_str), cache |-> cache, cold |-> TRUE]

\* result: the document, the cache afterwards, and whether the files were read
get_policy_for_tenant(cache, fs, tenant_str) ==
  IF tenant_str \in DOMAIN cache
  THEN [doc |-> cache[tenant_str], cache |-> cache, cold |-> FALSE]
  ELSE LET merged_policy == LoadPolicy(fs, tenant_str)
       IN IF merged_policy # NoPolicy
          THEN [doc |-> merged_policy,
                cache |-> [k \in DOMAIN cache \cup {tenant_str} |->
                             IF k = tenant_str THEN merged_policy ELSE cache[k]],
                cold |-> TRUE]
          ELSE [doc |-> NoPolicy, cache |-> cache, cold |-> TRUE]

\* ------------------------------------------------------------------
\* Call contexts: a heap of containers (dict, list, object)
\* ------------------------------------------------------------------
\* a reference carries the credential c its heap was built around
Ptr(n, c) == [t |-> "ref", n |-> n, c |-> c]

DictNode(keys, val) == [kind |-> "dict", keys |-> keys, val |-> val]
ObjNode(keys, val) == [kind |-> "obj", keys |-> keys, val |-> val]
ListNode(keys, val) == [kind |-> "list", keys |-> keys, val |-> val]

\* the containers a runtime may hand over, built around the credential c
Heap(n, c) ==
  CASE n = "empty_dict" -> DictNode(<< >>, [k \in {} |-> NoneV])
    \* {"headers": {"Authorization": c}}
    [] n = "hdr_dict" -> DictNode(<< "headers" >>, [headers |-> Ptr("hdrs", c)])
    [] n = "hdrs" -> DictNode(<< "Authorization" >>, [Authorization |-> c])
    \* SimpleNamespace(state={"auth_token": c})
    [] n = "state_obj" -> ObjNode(<< "state" >>, [state |-> Ptr("st", c)])
    [] n = "st" -> DictNode(<< "auth_token" >>, [auth_token |-> c])
    \* {"context": {"raw_request": {"headers": {"authorization": c}}}}
    [] n = "nested" -> DictNode(<< "context" >>, [context |-> Ptr("raw", c)])
    [] n = "raw" -> DictNode(<< "raw_request" >>, [raw_request |-> Ptr("hdr_lc", c)])
    [] n = "hdr_lc" -> DictNode(<< "headers" >>, [headers |-> Ptr("hdrs_lc", c)])
    [] n = "hdrs_lc" -> DictNode(<< "authorization" >>, [authorization |-> c])
    \* {"headers": "x", "Authorization": c}: the headers entry is no mapping
    [] n = "junk_hdrs" ->
         DictNode(<< "headers", "Authorization" >>,
                  [headers |-> Str(<< "x" >>), Authorization |-> c])
    \* {"headers": {"x": "1"}, "token": c}
    [] n = "shadowed" ->
         DictNode(<< "headers", "token" >>, [headers |-> Ptr("plain", c), token |-> c])
    [] n = "plain" -> DictNode(<< "x" >>, [x |-> Str(<< "1" >>)])
    \* {"Authorization": "", "token": c}
    [] n = "auth_empty" ->
         DictNode(<< "Authorization", "token" >>,
                  [Authorization |-> Str(EmptyStr), token |-> c])
    \* o.context = o; o.request = {"headers": {"Authorization": c}}
    [] n = "cyc_obj" ->
         ObjNode(<< "context", "request" >>,
                 [context |-> Ptr("cyc_obj", c), request |-> Ptr("hdr_dict", c)])
    \* d = {"context": d, "items": l} with l = [d, l, {"Authorization": c}]
    [] n = "cyc_dict" ->
         DictNode(<< "context", "items" >>,
                  [context |-> Ptr("cyc_dict", c), items |-> Ptr("cyc_list", c)])
    [] n = "cyc_list" ->
         ListNode(<< "0", "1", "2" >>,
                  [k \in {"0", "1", "2"} |->
                     IF k = "0" THEN Ptr("cyc_dict", c)
                     ELSE IF k = "1" THEN Ptr("cyc_list", c) ELSE Ptr("hdrs", c)])
    \* SimpleNamespace(state={}): the state mapping is there and holds nothing
    [] n = "state_blank" -> ObjNode(<< "state" >>, [state |-> Ptr("empty_dict", c)])
    \* SimpleNamespace(session=SimpleNamespace(state={}))
    [] n = "session_blank" -> ObjNode(<< "session" >>, [session |-> Ptr("state_blank", c)])

Deref(p) == Heap(p.n, p.c)

\* truthiness of a value that may be a container
TruthyH(v) ==
  IF v.t = "ref"
  THEN (Deref(v).kind = "obj" \/ Deref(v).keys # << >>)
  ELSE Truthy(v)

IsDict(v) == v.t = "ref" /\ Deref(v).kind = "dict"
IsList(v) == v.t = "ref" /\ Deref(v).kind = "list"
IsObj(v) == v.t = "ref" /\ Deref(v).kind = "obj"

\* key in d
HasKey(v, k) == k \in Range(Deref(v).keys)

\* d.get(k)
DictGet(v, k) == IF HasKey(v, k) THEN Deref(v).val[k] ELSE NoneV

\* hasattr(o, a) for the attribute names the plugin asks for
HasAttr(v, a) == IsObj(v) /\ HasKey(v, a)

\* getattr(o, a, None)
GetAttr(v, a) == IF HasAttr(v, a) THEN Deref(v).val[a] ELSE NoneV

\* d.values() in insertion order, or the items of a list
ValuesOf(v) == [i \in 1..Len(Deref(v).keys) |-> Deref(v).val[Deref(v).keys[i]]]

\* ------------------------------------------------------------------
\* _extract_token_from_container
\* ------------------------------------------------------------------
HeaderKeys == << "Authorization", "authorization", "auth_token", "token" >>
NestedKeys == << "headers", "metadata", "context", "raw_request", "request", "envelope" >>
NestedAttrs == << "headers", "metadata", "context", "raw_request", "request" >>

\* result of a walk: the token found, the containers visited, and whether
\* the walk raised (a truthy "headers" entry that is not a mapping)
WalkResult(tok, vis, raised) == [tok |-> tok, vis |-> vis, raised |-> raised]

\* first of the keys that is in the mapping, 0 when none is
RECURSIVE FirstKeyIn(_, _, _)
FirstKeyIn(v, keys, i) ==
  IF i > Len(keys) THEN 0
  ELSE IF HasKey(v, keys[i]) THEN i
  ELSE FirstKeyIn(v, keys, i + 1)

RECURSIVE extract_token_from_container(_, _)
RECURSIVE WalkEach(_, _)

\* the loops "for x in ...: cleaned = walk(x); if cleaned: return cleaned"
WalkEach(vals, vis) ==
  IF vals = << >> THEN WalkResult(EmptyStr, vis, FALSE)
  ELSE LET Rest(r) == IF r.raised \/ r.tok # EmptyStr THEN r
                      ELSE WalkEach(Tail(vals), r.vis)
       IN Rest(extract_token_from_container(Head(vals), vis))

extract_token_from_container(container, visited) ==
  IF ~TruthyH(container) THEN WalkResult(EmptyStr, visited, FALSE)
  ELSE IF container.t # "ref" THEN WalkResult(EmptyStr, visited, FALSE)
  ELSE IF container \in visited THEN WalkResult(EmptyStr, visited, FALSE)
  ELSE
    LET vis1 == visited \cup {container}
        \* lines 611-613: every value of the mapping
        Values(headers, r1) ==
          IF r1.raised \/ r1.tok # EmptyStr THEN r1
          ELSE WalkEach(ValuesOf(headers), r1.vis)
        \* lines 598-609: the nested keys, when none of the header keys is there
        Nested(headers, i) ==
          IF i # 0
          THEN WalkResult(sanitize_bearer(DictGet(headers, HeaderKeys[i])), vis1, FALSE)
          ELSE Values(headers,
                      WalkEach([j \in 1..Len(NestedKeys) |->
                                  DictGet(headers, NestedKeys[j])], vis1))
        \* lines 593-596: headers = container.get("headers") or container
        Mapping(headers) ==
          IF ~IsDict(headers) THEN WalkResult(EmptyStr, vis1, TRUE)
          ELSE Nested(headers, FirstKeyIn(headers, HeaderKeys, 1))
        Headers(h0) == Mapping(IF TruthyH(h0) THEN h0 ELSE container)
    IN IF IsDict(container)
       THEN Headers(DictGet(container, "headers"))
       ELSE IF IsList(container)
       THEN WalkEach(ValuesOf(container), vis1)
       ELSE WalkEach([j \in 1..Len(NestedAttrs) |-> GetAttr(container, NestedAttrs[j])],
                     vis1)

\* ------------------------------------------------------------------
\* _extract_auth_token
\* ------------------------------------------------------------------
\* tool_args.get(key)
ArgGet(tool_args, key) == IF key \in DOMAIN tool_args THEN tool_args[key] ELSE NoneV

\* lines 503-526: the state containers reachable from the context
PossibleStates(ctx) ==
  LET session == GetAttr(ctx, "session")
      inner == GetAttr(ctx, "context")
  IN (IF HasAttr(ctx, "state") THEN << GetAttr(ctx, "state") >> ELSE << >>)
     \o (IF HasAttr(ctx, "session") /\ TruthyH(session) /\ HasAttr(session, "state")
         THEN << GetAttr(session, "state") >> ELSE << >>)
     \o (IF HasAttr(ctx, "context") /\ TruthyH(inner) /\ HasAttr(inner, "state")
         THEN << GetAttr(inner, "state") >> ELSE << >>)
     \o (IF HasAttr(ctx, "context") /\ TruthyH(inner) /\ HasAttr(inner, "session")
            /\ HasAttr(GetAttr(inner, "session"), "state")
         THEN << GetAttr(GetAttr(inner, "session"), "state") >> ELSE << >>)
     \o (IF HasAttr(ctx, "attributes") /\ IsDict(GetAttr(ctx, "attributes"))
         THEN << GetAttr(ctx, "attributes") >> ELSE << >>)

\* lines 529-543: the auth_token of the first state container that has a truthy one
RECURSIVE StateToken(_)
StateToken(states) ==
  IF states = << >> THEN NoneV
  ELSE LET state == Head(states)
           token == IF IsDict(state) THEN DictGet(state, "auth_token")
                    ELSE GetAttr(state, "auth_token")
       IN IF TruthyH(state) /\ TruthyH(token) THEN token
          ELSE StateToken(Tail(states))

\* lines 568-572: the first candidate that is non-empty once sanitized
RECURSIVE FirstCleaned(_)
FirstCleaned(candidates) ==
  IF candidates = << >> THEN EmptyStr
  ELSE LET Pick(cleaned) == IF cleaned # EmptyStr THEN cleaned
                            ELSE FirstCleaned(Tail(candidates))
       IN Pick(sanitize_bearer(Head(candidates)))

\* variant: the remembered tokens are tried before the invocation's own
extract_auth_token_hintfirst(direct, hint, last_tok, tool_context, tool_args) ==
  LET Candidates(w1, w2) ==
        IF w1.raised \/ w2.raised
        THEN [tok |-> EmptyStr, raised |-> TRUE]
        ELSE [tok |-> FirstCleaned(
                        (IF hint # EmptyStr THEN << Str(hint) >> ELSE << >>)
                        \o (IF last_tok # EmptyStr THEN << Str(last_tok) >> ELSE << >>)
                        \o << ArgGet(tool_args, "auth_token"), ArgGet(tool_args, "token"),
                              ArgGet(tool_args, "Authorization"),
                              ArgGet(tool_args, "authorization"),
                              Str(w1.tok), Str(w2.tok) >>),
              raised |-> FALSE]
      FromState(st) ==
        IF st.t # "none" THEN [tok |-> sanitize_bearer(st), raised |-> FALSE]
        ELSE Candidates(extract_token_from_container(tool_context, {}),
                        extract_token_from_container(GetAttr(tool_context, "metadata"),
                                                     {}))
  IN IF Truthy(direct) THEN [tok |-> sanitize_bearer(direct), raised |-> FALSE]
     ELSE FromState(StateToken(PossibleStates(tool_context)))

\* direct is the value of GLOBAL_REQUEST_TOKEN; hint and last are the
\* fields _captured_token_hint and _last_auth_token
extract_auth_token(direct, hint, last_tok, tool_context, tool_args) ==
  LET \* lines 548-572: the candidates in order, w1 and w2 the two walks
      Candidates(w1, w2) ==
        IF w1.raised \/ w2.raised
        THEN [tok |-> EmptyStr, raised |-> TRUE]
        ELSE [tok |-> FirstCleaned(
                        << ArgGet(tool_args, "auth_token"), ArgGet(tool_args, "token"),
                           ArgGet(tool_args, "Authorization"),
                           ArgGet(tool_args, "authorization"),
                           Str(w1.tok), Str(w2.tok) >>
                        \o (IF hint # EmptyStr THEN << Str(hint) >> ELSE << >>)
                        \o (IF last_tok # EmptyStr THEN << Str(last_tok) >> ELSE << >>)),
              raised |-> FALSE]
      \* lines 529-543: st is the token of the state containers
      FromState(st) ==
        IF st.t # "none" THEN [tok |-> sanitize_bearer(st), raised |-> FALSE]
        ELSE Candidates(extract_token_from_container(tool_context, {}),
                        extract_token_from_container(GetAttr(tool_context, "metadata"),
                                                     {}))
  IN IF Truthy(direct) THEN [tok |-> sanitize_bearer(direct), raised |-> FALSE]
     ELSE FromState(StateToken(PossibleStates(tool_context)))

\* ------------------------------------------------------------------
\* _get_auth_claims
\* ------------------------------------------------------------------
\* variant: the located token is remembered whether or not it decodes
get_auth_claims_remember(cfg, direct, hint, last_tok, tool_context, tool_args) ==
  LET Decoded(token, claims) ==
        IF token = EmptyStr
        THEN [claims |-> NoClaims, token |-> token, last_tok |-> last_tok,
              repeated |-> FALSE, raised |-> FALSE]
        ELSE [claims |-> claims, token |-> token, last_tok |-> token,
              repeated |-> (claims # NoClaims /\ token = last_tok), raised |-> FALSE]
      Extracted(x) ==
        IF x.raised
        THEN [claims |-> NoClaims, token |-> EmptyStr, last_tok |-> last_tok,
              repeated |-> FALSE, raised |-> TRUE]
        ELSE Decoded(x.tok, decode_jwt(cfg, x.tok))
  IN Extracted(extract_auth_token(direct, hint, last_tok, tool_context, tool_args))

\* _log_token_inspection: the event printed for a result of _get_auth_claims,
\* "none" when the call is not reached (lines 635-637)
log_token_inspection(a) ==
  IF a.claims = NoClaims THEN "none"
  ELSE IF a.repeated THEN "JWT reuse" ELSE "JWT load"

\* result: the claims, the token they came from, the _last_auth_token left
\* behind, and whether the token inspection was logged as a reuse
get_auth_claims(cfg, direct, hint, last_tok, tool_context, tool_args) ==
  LET Decoded(token, claims) ==
        IF token = EmptyStr
        THEN [claims |-> NoClaims, token |-> token, last_tok |-> last_tok,
              repeated |-> FALSE, raised |-> FALSE]
        ELSE IF claims # NoClaims
        THEN [claims |-> claims, token |-> token, last_tok |-> token,
              repeated |-> (token = last_tok), raised |-> FALSE]
        ELSE [claims |-> claims, token |-> token, last_tok |-> last_tok,
              repeated |-> FALSE, raised |-> FALSE]
      Extracted(x) ==
        IF x.raised
        THEN [claims |-> NoClaims, token |-> EmptyStr, last_tok |-> last_tok,
              repeated |-> FALSE, raised |-> TRUE]
        ELSE Decoded(x.tok, decode_jwt(cfg, x.tok))
  IN Extracted(extract_auth_token(direct, hint, last_tok, tool_context, tool_args))

\* ------------------------------------------------------------------
\* Roles
\* ------------------------------------------------------------------
RoleKeys == << "roles", "role", "permissions", "scopes", "scope" >>

\* [str(item).strip().lower() for item in value if str(item).strip()]
RECURSIVE CleanItems(_)
CleanItems(items) ==
  IF items = << >> THEN << >>
  ELSE (IF Strip(StrOf(Head(items))) # EmptyStr
        THEN << Lower(Strip(StrOf(Head(items)))) >> ELSE << >>)
       \o CleanItems(Tail(items))

\* the roles one claim contributes
RolesOfValue(value) ==
  IF value.t = "str"
  THEN CleanItems([i \in 1..Len(SplitWords(value.s, << >>)) |->
                     Str(SplitWords(value.s, << >>)[i])])
  ELSE IF value.t = "list" THEN CleanItems(value.l)
  ELSE << >>

RECURSIVE PoolRoles(_, _)
PoolRoles(claims, keys) ==
  IF keys = << >> THEN << >>
  ELSE RolesOfValue(ClaimGet(claims, Head(keys))) \o PoolRoles(claims, Tail(keys))

extract_roles_from_claims(claims) == PoolRoles(claims, RoleKeys)

normalize_required_roles(required_roles) ==
  IF ~Truthy(required_roles) THEN << >>
  ELSE IF required_roles.t = "str" THEN CleanItems(<< required_roles >>)
  ELSE IF required_roles.t = "list" THEN CleanItems(required_roles.l)
  ELSE << >>

roles_satisfied(user_roles, required_roles) ==
  \E i \in 1..Len(required_roles) :
    Lower(required_roles[i]) \in {Lower(user_roles[j]) : j \in 1..Len(user_roles)}

\* ------------------------------------------------------------------
\* Tool rules
\* ------------------------------------------------------------------
\* self.policy: set to {} by the constructor and assigned nowhere else
EmptyPolicy == [k \in {} |-> NoneV]

\* the rule set the policy server serves and the tests install
\* (policies.tool_validation.rules)
policy_payload ==
  [tool_validation_rules |->
     [call_remote_agent |-> [required_roles |-> List(<< Str(roleAdmin) >>)]]]

\* _get_tool_rules: the rules of self.policy, {} when it has none
get_tool_rules(policy) ==
  IF "tool_validation_rules" \in DOMAIN policy
  THEN policy["tool_validation_rules"]
  ELSE [k \in {} |-> NoneV]

RuleGet(rule, key) == IF key \in DOMAIN rule THEN rule[key] ELSE NoneV

\* the required_roles branch of _check_tool_rule: the violation or "" for none
RoleViolation(rule, claims) ==
  LET required_roles == IF Truthy(RuleGet(rule, "required_roles"))
                        THEN RuleGet(rule, "required_roles")
                        ELSE RuleGet(rule, "required_role")
      normalized_roles == normalize_required_roles(required_roles)
      user_roles == extract_roles_from_claims(claims)
  IN IF normalized_roles = << >> THEN ""
     ELSE IF user_roles = << >> THEN "role_information_missing"
     ELSE IF ~roles_satisfied(user_roles, normalized_roles) THEN "requires_roles"
     ELSE ""

\* lines 391-395: the allowed_agents check
AgentsViolation(rule, tool_args) ==
  LET allowed_agents == RuleGet(rule, "allowed_agents")
      agent_name == IF Truthy(ArgGet(tool_args, "agent_name"))
                    THEN ArgGet(tool_args, "agent_name")
                    ELSE ArgGet(tool_args, "agent")
  IN IF Truthy(allowed_agents) /\ Truthy(agent_name)
        /\ agent_name \notin Range(allowed_agents.l)
     THEN "agent_not_allowed" ELSE ""

\* len(task): defined for strings and lists, a TypeError for the rest
Sized(v) == v.t \in {"str", "list"}
LenOf(v) == IF v.t = "str" THEN Len(v.s) ELSE Len(v.l)

\* lines 397-401: the max_task_length check
TaskViolation(rule, tool_args) ==
  LET max_task_length == RuleGet(rule, "max_task_length")
      task == IF Truthy(ArgGet(tool_args, "task")) THEN ArgGet(tool_args, "task")
              ELSE Str(EmptyStr)
  IN IF ~IsInt(max_task_length) THEN ""
     ELSE IF ~Sized(task) THEN "raised"
     ELSE IF LenOf(task) > IntOf(max_task_length) THEN "task_length_exceeds"
     ELSE ""

FalseWords == { << "f", "a", "l", "s", "e" >>, << "0" >>, << "o", "f", "f" >> }

\* lines 403-405: the requires_auth flag, a string read as a switch
RequiresAuth(rule) ==
  LET requires_auth == RuleGet(rule, "requires_auth")
  IN IF requires_auth.t = "str" THEN Lower(requires_auth.s) \notin FalseWords
     ELSE Truthy(requires_auth)

\* lines 406-407: x is the result of _extract_auth_token
AuthViolation(rule, x) ==
  IF ~RequiresAuth(rule) THEN ""
  ELSE IF x.raised THEN "raised"
  ELSE IF x.tok = EmptyStr THEN "authentication_required"
  ELSE ""

\* variant: a limit equal to the bound is refused
ResultsViolation_inclusive(rule, tool_args) ==
  LET max_results == RuleGet(rule, "max_results")
      limit == ArgGet(tool_args, "limit")
  IN IF IsInt(max_results) /\ IsInt(limit) /\ IntOf(limit) >= IntOf(max_results)
     THEN "limit_exceeds" ELSE ""

\* lines 419-423: the max_results check
ResultsViolation(rule, tool_args) ==
  LET max_results == RuleGet(rule, "max_results")
      limit == ArgGet(tool_args, "limit")
  IN IF IsInt(max_results) /\ IsInt(limit) /\ IntOf(limit) > IntOf(max_results)
     THEN "limit_exceeds" ELSE ""

\* whether the rule sets required_roles (or required_role) to anything
HasRequiredRoles(rule) ==
  normalize_required_roles(IF Truthy(RuleGet(rule, "required_roles"))
                           THEN RuleGet(rule, "required_roles")
                           ELSE RuleGet(rule, "required_role")) # << >>

\* _check_tool_rule: the violation ("" for None), the argument mapping and
\* the _last_auth_token the call leaves behind
check_tool_rule(cfg, direct, hint, last_tok, tool_name, tool_args, rule, tool_context) ==
  LET Result(violation, lt) ==
        [violation |-> IF violation = "raised" THEN "" ELSE violation,
         raised |-> violation = "raised", tool_args |-> tool_args, last_tok |-> lt]
      \* lines 419-425
      Results == Result(ResultsViolation(rule, tool_args), last_tok)
      \* lines 409-417: a is the result of _get_auth_claims
      Roles(a) ==
        IF a.raised THEN Result("raised", last_tok)
        ELSE IF RoleViolation(rule, a.claims) # ""
        THEN Result(RoleViolation(rule, a.claims), a.last_tok)
        ELSE Result(ResultsViolation(rule, tool_args), a.last_tok)
      Auth(v) ==
        IF v # "" THEN Result(v, last_tok)
        ELSE IF HasRequiredRoles(rule)
        THEN Roles(get_auth_claims(cfg, direct, hint, last_tok, tool_context, tool_args))
        ELSE Results
      Task(v) ==
        IF v # "" THEN Result(v, last_tok)
        ELSE Auth(AuthViolation(rule, extract_auth_token(direct, hint, last_tok,
                                                          tool_context, tool_args)))
      Agents(v) ==
        IF v # "" THEN Result(v, last_tok) ELSE Task(TaskViolation(rule, tool_args))
  IN Agents(AgentsViolation(rule, tool_args))

\* ------------------------------------------------------------------
\* _check_allowlist_rule
\* ------------------------------------------------------------------
\* next(item for item in allowed_list if str(item["agent_id"]).strip() == my_id)
RECURSIVE FindMyRule(_, _, _)
FindMyRule(allowed_list, my_id_strict, i) ==
  IF i > Len(allowed_list) THEN 0
  ELSE IF Strip(allowed_list[i].agent_id) = my_id_strict THEN i
  ELSE FindMyRule(allowed_list, my_id_strict, i + 1)

\* variant: the agent's own rule is looked up ignoring case
RECURSIVE FindMyRuleNoCase(_, _, _)
FindMyRuleNoCase(allowed_list, my_id, i) ==
  IF i > Len(allowed_list) THEN 0
  ELSE IF Lower(Strip(allowed_list[i].agent_id)) = Lower(my_id) THEN i
  ELSE FindMyRuleNoCase(allowed_list, my_id, i + 1)

check_allowlist_rule_nocase(agent_id, tool_name, policy, tool_args) ==
  IF policy = NoPolicy THEN "no_policy_defined"
  ELSE LET i == FindMyRuleNoCase(policy.allowed_list, Strip(agent_id), 1)
           target_agent == ArgGet(tool_args, "agent_name")
       IN IF i = 0 THEN "agent_not_defined"
          ELSE IF tool_name \notin policy.allowed_list[i].allowed_tools
               THEN "tool_not_allowed"
          ELSE IF tool_name = "call_remote_agent"
               THEN (IF ~Truthy(target_agent) THEN "missing_agent_name"
                     ELSE IF Strip(StrOf(target_agent)) \notin policy.valid_targets
                          THEN "target_not_valid"
                          ELSE "")
          ELSE ""

\* variant: the tool is looked up in the tools of every agent of the tenant
check_allowlist_rule_anytool(agent_id, tool_name, policy, tool_args) ==
  IF policy = NoPolicy THEN "no_policy_defined"
  ELSE LET i == FindMyRule(policy.allowed_list, Strip(agent_id), 1)
           target_agent == ArgGet(tool_args, "agent_name")
       IN IF i = 0 THEN "agent_not_defined"
          ELSE IF tool_name \notin UNION {policy.allowed_list[j].allowed_tools :
                                            j \in 1..Len(policy.allowed_list)}
               THEN "tool_not_allowed"
          ELSE IF tool_name = "call_remote_agent"
               THEN (IF ~Truthy(target_agent) THEN "missing_agent_name"
                     ELSE IF Strip(StrOf(target_agent)) \notin policy.valid_targets
                          THEN "target_not_valid"
                          ELSE "")
          ELSE ""

\* variant: the delegation target is only required to be present
check_allowlist_rule_notarget(agent_id, tool_name, policy, tool_args) ==
  IF policy = NoPolicy THEN "no_policy_defined"
  ELSE LET i == FindMyRule(policy.allowed_list, Strip(agent_id), 1)
           target_agent == ArgGet(tool_args, "agent_name")
       IN IF i = 0 THEN "agent_not_defined"
          ELSE IF tool_name \notin policy.allowed_list[i].allowed_tools
               THEN "tool_not_allowed"
          ELSE IF tool_name = "call_remote_agent"
               THEN (IF ~Truthy(target_agent) THEN "missing_agent_name" ELSE "")
          ELSE ""

\* variant: the tool is looked up before the agent is found to be defined
check_allowlist_rule_toolfirst(agent_id, tool_name, policy, tool_args) ==
  IF policy = NoPolicy THEN "no_policy_defined"
  ELSE LET i == FindMyRule(policy.allowed_list, Strip(agent_id), 1)
           target_agent == ArgGet(tool_args, "agent_name")
       IN IF i = 0 \/ tool_name \notin policy.allowed_list[i].allowed_tools
          THEN "tool_not_allowed"
          ELSE IF tool_name = "call_remote_agent"
               THEN (IF ~Truthy(target_agent) THEN "missing_agent_name"
                     ELSE IF Strip(StrOf(target_agent)) \notin policy.valid_targets
                          THEN "target_not_valid"
                          ELSE "")
          ELSE ""

\* the violation, or "" when the call passes
check_allowlist_rule(agent_id, tool_name, policy, tool_args) ==
  IF policy = NoPolicy THEN "no_policy_defined"
  ELSE LET i == FindMyRule(policy.allowed_list, Strip(agent_id), 1)
           target_agent == ArgGet(tool_args, "agent_name")
       IN IF i = 0 THEN "agent_not_defined"
          ELSE IF tool_name \notin policy.allowed_list[i].allowed_tools
               THEN "tool_not_allowed"
          ELSE IF tool_name = "call_remote_agent"
               THEN (IF ~Truthy(target_agent) THEN "missing_agent_name"
                     ELSE IF Strip(StrOf(target_agent)) \notin policy.valid_targets
                          THEN "target_not_valid"
                          ELSE "")
          ELSE ""

\* ------------------------------------------------------------------
\* before_tool_callback
\* ------------------------------------------------------------------
\* the return value: None, or {"error": ...}
Allow == [allow |-> TRUE, reason |-> ""]
Deny(reason) == [allow |-> FALSE, reason |-> reason]

\* tenant.startswith("<")
IsSentinel(tenant) == tenant = EmptyStr \/ Head(tenant) = "<"

\* variant: the tool context is preferred to the callback context
CallContext_toolfirst(callback_context, tool_context) ==
  IF TruthyH(tool_context) THEN tool_context ELSE callback_context

\* line 229: ctx = callback_context or tool_context
CallContext(callback_context, tool_context) ==
  IF TruthyH(callback_context) THEN callback_context ELSE tool_context

\* result: the verdict with everything the call left behind
before_tool_callback(agent_id, cfg, cache, fs, hint, last_tok, direct, tool, tool_args, tool_context, callback_context) ==
  LET Base(a, current_tenant) ==
        [verdict |-> Allow, raised |-> FALSE, claims |-> a.claims,
         token |-> a.token, tenant |-> current_tenant, repeated |-> a.repeated,
         cache |-> cache, last_tok |-> a.last_tok, cold |-> FALSE, audit |-> NoneV,
         log |-> "none"]
      \* lines 242-263: the allowlist check and the audit event of a violation
      Checked(base, current_tenant, p, violation) ==
        IF violation # ""
        THEN [base EXCEPT !.verdict = Deny(violation), !.cache = p.cache,
                          !.cold = p.cold,
                          !.audit = [agent_id |-> agent_id, type |-> "tool_blocked",
                                     tool |-> tool, reason |-> violation,
                                     tenant |-> current_tenant]]
        ELSE [base EXCEPT !.cache = p.cache, !.cold = p.cold]
      \* lines 238-240: the merged document of the tenant key
      WithPolicy(base, current_tenant, p) ==
        IF p.doc = NoPolicy
        THEN [base EXCEPT !.verdict = Deny("no_policy_for_tenant"),
                          !.cache = p.cache, !.cold = p.cold]
        ELSE Checked(base, current_tenant, p,
                     check_allowlist_rule(agent_id, tool, p.doc, tool_args))
      \* lines 232-235: the tenant key of the claims
      WithTenant(base, a, current_tenant) ==
        IF a.raised THEN [base EXCEPT !.raised = TRUE, !.verdict = Deny("raised")]
        ELSE IF IsSentinel(current_tenant)
        THEN [base EXCEPT !.verdict = Deny("no_valid_tenant")]
        ELSE WithPolicy(base, current_tenant,
                        get_policy_for_tenant(cache, fs, current_tenant))
      WithTenantKey(a, current_tenant) ==
        WithTenant(Base(a, current_tenant), a, current_tenant)
      \* lines 229-231: the claims of the credential
      WithClaims(a) == WithTenantKey(a, extract_tenant_from_claims(a.claims))
  IN WithClaims(get_auth_claims(cfg, direct, hint, last_tok,
                                CallContext(callback_context, tool_context),
                                tool_args))

\* ------------------------------------------------------------------
\* _send_log
\* ------------------------------------------------------------------
\* what requests.post does with the event: it is delivered, it fails with a
\* transport error, or it runs into the timeout
LogOutcomes == {"delivered", "transport_error", "timeout"}

\* variant: a failed emission is raised to the caller
send_log_propagate(payload, outcome) ==
  [raised |-> outcome # "delivered", delivered |-> outcome = "delivered"]

\* try: requests.post(..., timeout=2) except Exception: pass
send_log(payload, outcome) ==
  [raised |-> FALSE, delivered |-> outcome = "delivered"]

\* lines 251-260: the audit event of a violation is handed to _send_log
\* before the verdict is returned; log is what became of the emission
emit_audit(r, outcome) ==
  IF r.audit = NoneV
  THEN [r EXCEPT !.log = "none"]
  ELSE IF send_log(r.audit, outcome).raised
       THEN [r EXCEPT !.raised = TRUE, !.verdict = Deny("raised"), !.log = outcome]
       ELSE [r EXCEPT !.log = outcome]

\* ------------------------------------------------------------------
\* _ingest_initial_auth and _capture_auth_from_context
\* ------------------------------------------------------------------
\* the value both _captured_token_hint and _last_auth_token get, "" for None
ingest_initial_auth(token_hint, env_token, context) ==
  FirstCleaned(<< token_hint, env_token,
                  Str(extract_token_from_container(context, {}).tok) >>)

\* the _captured_token_hint after the call
capture_auth_from_context(hint, callback_context) ==
  LET token == extract_token_from_container(callback_context, {}).tok
  IN IF token # EmptyStr THEN token ELSE hint

\* ------------------------------------------------------------------
\* before_model_callback
\* ------------------------------------------------------------------
\* lines 201-217: the token located for the call is written into the state
\* mapping that call_remote_agent reads; written is the value stored under
\* "auth_token" (None when nothing is stored), where the mapping it went to
before_model_callback(direct, hint, last_tok, callback_context) ==
  LET Stored(x) ==
        IF x.raised
        THEN [ret |-> NoneV, raised |-> TRUE, written |-> NoneV, where |-> "none"]
        ELSE IF x.tok = EmptyStr
        THEN [ret |-> NoneV, raised |-> FALSE, written |-> NoneV, where |-> "none"]
        ELSE IF HasAttr(callback_context, "state")
                /\ IsDict(GetAttr(callback_context, "state"))
        THEN [ret |-> NoneV, raised |-> FALSE, written |-> Str(x.tok),
              where |-> "state"]
        ELSE IF HasAttr(callback_context, "session")
                /\ HasAttr(GetAttr(callback_context, "session"), "state")
        THEN [ret |-> NoneV, raised |-> FALSE, written |-> Str(x.tok),
              where |-> "session.state"]
        ELSE [ret |-> NoneV, raised |-> FALSE, written |-> NoneV, where |-> "none"]
  IN Stored(extract_auth_token(direct, hint, last_tok, callback_context,
                               [k \in {} |-> NoneV]))

\* Orchestrator_plugin/agent.py lines 146-153: the Authorization header
\* call_remote_agent sends for the auth_token of the state, None for no header
ForwardedHeader(auth_token) ==
  IF auth_token.t = "str" /\ auth_token.s # EmptyStr
  THEN Str(<< "B", "e", "a", "r", "e", "r", " " >> \o auth_token.s)
  ELSE NoneV

\* ------------------------------------------------------------------
\* Inputs
\* ------------------------------------------------------------------
Bearer(name) == Str(<< "B", "e", "a", "r", "e", "r", " ", name >>)

\* os.getenv: JWT_SECRET/SECRET_KEY, JWT_PUBLIC_KEY, JWT_ALGORITHM, JWT_AUDIENCE
Config(secret, public, aud) ==
  [jwt_secret |-> secret, jwt_public_key |-> public,
   jwt_algorithm |-> "HS256", jwt_audience |-> aud]

\* the deployments modelled: an agent with its verification settings
Deployments ==
  { << agentO, Config("", "", "") >>, << agentO, Config(KeyGood, "", "") >>,
    << << " ", "O" >>, Config(KeyOther, KeyGood, "") >>,
    << << "o" >>, Config(KeyGood, "", AudGood) >> }

NoArgs == [k \in {} |-> NoneV]

\* the calls a model makes: tool name and argument mapping
ToolCalls ==
  { << "get_status", NoArgs >>, << "call_remote_agent", NoArgs >> }
  \cup { << "call_remote_agent", [agent_name |-> v] >> :
           v \in {Str(EmptyStr), Str(agentD), Str(<< " ", "D" >>), Str(agentZ)} }

\* the two calls made with every credential
BasicCalls ==
  { << "get_status", NoArgs >>, << "call_remote_agent", [agent_name |-> Str(agentD)] >> }

NoContexts == {NoneV, Ptr("empty_dict", NoneV)}

HeaderContexts == { Ptr("hdr_dict", Bearer(n)) : n \in TokenNames }

Invocation(direct, tool, tool_args, tool_context, callback_context) ==
  [direct |-> direct, tool |-> tool, tool_args |-> tool_args,
   tool_context |-> tool_context, callback_context |-> callback_context]

\* the invocations the runtime makes: the credential in the call context,
\* in the arguments, in the direct tunnel, or in the callback context
Invocations ==
  { Invocation(NoneV, c[1], c[2], ctx, NoneV) :
      c \in ToolCalls, ctx \in {Ptr("hdr_dict", Bearer("Ta")), Ptr("hdr_dict", Bearer("Tl"))} }
  \cup { Invocation(NoneV, c[1], c[2], ctx, NoneV) :
           c \in BasicCalls,
           ctx \in NoContexts \cup HeaderContexts \cup {Ptr("state_obj", Str(<< "Tl" >>))} }
  \cup { Invocation(NoneV, "get_status", [auth_token |-> Bearer("Ta")], NoneV, NoneV) }
  \cup { Invocation(Str(<< "Ta" >>), "call_remote_agent", [agent_name |-> Str(agentD)],
                    ctx, NoneV) : ctx \in {NoneV, Ptr("hdr_dict", Bearer("Tf"))} }
  \cup { Invocation(NoneV, "call_remote_agent", [agent_name |-> Str(agentD)],
                    ctx, Ptr("hdr_dict", Bearer("Tn"))) :
           ctx \in {NoneV, Ptr("hdr_dict", Bearer("Ta"))} }

\* ------------------------------------------------------------------
\* State
\* ------------------------------------------------------------------
VARIABLES
  agent_id,             \* self.agent_id
  jwt_config,           \* self._jwt_secret, _jwt_public_key, _jwt_algorithm, _jwt_audience
  policy,               \* self.policy
  policy_cache,         \* self._policy_cache
  last_auth_token,      \* self._last_auth_token ("" for None)
  captured_token_hint,  \* self._captured_token_hint ("" for None)
  policy_files,         \* the files iam/<tenant>.json
  last,                 \* the last operation, its inputs and what it returned
  threads,              \* the resolves in progress, one per thread of the host
  probe,                \* a helper applied on its own: its inputs and its result
  requests,             \* the HTTP requests of the delivery agent's server, one per task
  tunnel,               \* GLOBAL_REQUEST_TOKEN: its value in each execution context
  executor              \* the orchestrator's ADKAgentExecutor and its session service

vars == << agent_id, jwt_config, policy, policy_cache, last_auth_token,
           captured_token_hint, policy_files, last, threads, probe,
           requests, tunnel, executor >>

\* no resolve in progress, no helper applied
Idle == [pc |-> "idle"]

\* the requests the server handles at once
MaxRequests == 2

RequestIds == 1..MaxRequests

\* the execution contexts: 0 is the one the server runs in, r the copy the
\* task of request r runs in
ContextIds == 0..MaxRequests

\* a request that has not arrived
NoRequest == [pc |-> "idle"]

\* agent_executor.py lines 15-36: _session_created is False and the executor's
\* own InMemorySessionService holds no session; call is the last execute
NewExecutor ==
  [session_created |-> FALSE, sessions |-> {}, call |-> [op |-> "none"]]

\* no request in the server, the ContextVar at its default None everywhere,
\* a new executor
HostIdle ==
  /\ requests = [r \in RequestIds |-> NoRequest]
  /\ tunnel = [c \in ContextIds |-> NoneV]
  /\ executor = NewExecutor
NoProbe == [op |-> "none"]

EmptyCache == [k \in {} |-> NoPolicy]

\* __init__
Init ==
  /\ \E d \in Deployments : agent_id = d[1] /\ jwt_config = d[2]
  /\ policy = EmptyPolicy
  /\ policy_cache = EmptyCache
  /\ \E initial_auth_token \in {NoneV, Bearer("Ta")} :
       /\ captured_token_hint = ingest_initial_auth(initial_auth_token, NoneV, NoneV)
       /\ last_auth_token = ingest_initial_auth(initial_auth_token, NoneV, NoneV)
  /\ policy_files = [stem \in FileStems |->
                       IF stem = << "a" >> THEN ProvisionedFile(stem)
                       ELSE IF stem = << "b" >> THEN Corrupt ELSE Absent]
  /\ last = [op |-> "init"]
  /\ threads = << >>
  /\ probe = NoProbe
  /\ HostIdle

\* what the last record keeps of a before_tool_callback result
Observed(r) ==
  [verdict |-> r.verdict, raised |-> r.raised, claims |-> r.claims, token |-> r.token,
   tenant |-> r.tenant, repeated |-> r.repeated, cold |-> r.cold, audit |-> r.audit,
   log |-> r.log]

\* the runtime calls before_tool_callback
ToolCall ==
  \E inv \in Invocations :
    \E decided \in {before_tool_callback(agent_id, jwt_config, policy_cache,
                                         policy_files, captured_token_hint,
                                         last_auth_token, inv.direct, inv.tool,
                                         inv.tool_args, inv.tool_context,
                                         inv.callback_context)} :
     \E outcome \in IF decided.audit = NoneV THEN {"none"} ELSE LogOutcomes :
     \E r \in {emit_audit(decided, outcome)} :
      /\ policy_cache' = r.cache
      /\ last_auth_token' = r.last_tok
      /\ last' = [op |-> "before_tool_callback", inv |-> inv, res |-> Observed(r)]
      /\ UNCHANGED << agent_id, jwt_config, policy, captured_token_hint, policy_files,
                      threads, probe, requests, tunnel, executor >>

\* an earlier hook of the chain calls _capture_auth_from_context
CaptureAuth ==
  \E ctx \in {Ptr("hdr_dict", Bearer("Ta")), Ptr("empty_dict", NoneV)} :
    /\ captured_token_hint' = capture_auth_from_context(captured_token_hint, ctx)
    /\ last' = [op |-> "capture_auth_from_context", ctx |-> ctx]
    /\ UNCHANGED << agent_id, jwt_config, policy, policy_cache, last_auth_token,
                    policy_files, threads, probe, requests, tunnel, executor >>

\* variant: a forced fetch drops the cached documents
FetchPolicy_invalidate ==
  \E force \in BOOLEAN :
    /\ policy_cache' = IF force THEN EmptyCache ELSE policy_cache
    /\ last' = [op |-> "fetch_policy", force |-> force]
    /\ UNCHANGED << agent_id, jwt_config, policy, last_auth_token,
                    captured_token_hint, policy_files, threads, probe, requests, tunnel, executor >>

\* fetch_policy: its body is pass
FetchPolicy ==
  \E force \in BOOLEAN :
    /\ last' = [op |-> "fetch_policy", force |-> force]
    /\ UNCHANGED << agent_id, jwt_config, policy, policy_cache, last_auth_token,
                    captured_token_hint, policy_files, threads, probe, requests, tunnel, executor >>

\* an operator provisions a tenant: writes its policy file, or completes
\* the one a half-finished write left unreadable
WritePolicyFile ==
  \E stem \in FileStems :
    /\ policy_files[stem] \in {Absent, Corrupt}
    /\ policy_files' = [policy_files EXCEPT ![stem] = ProvisionedFile(stem)]
    /\ last' = [op |-> "write_policy_file", stem |-> stem]
    /\ UNCHANGED << agent_id, jwt_config, policy, policy_cache, last_auth_token,
                    captured_token_hint, threads, probe, requests, tunnel, executor >>

Next == ToolCall \/ CaptureAuth \/ FetchPolicy \/ WritePolicyFile

Spec == Init /\ [][Next]_vars

\* ------------------------------------------------------------------
\* Properties
\* ------------------------------------------------------------------
LastTool == last.op = "before_tool_callback"

TenantClaimKeys == {"tenant", "tid", "tenant_id", "org_id"}

\* the call context before_tool_callback searches: callback_context or tool_context
CtxOf(inv) ==
  IF TruthyH(inv.callback_context) THEN inv.callback_context ELSE inv.tool_context

\* the credential the invocation itself carries (direct tunnel, state
\* containers, arguments, call context), "" when it carries none
OwnCredential(inv) ==
  extract_auth_token(inv.direct, EmptyStr, EmptyStr, CtxOf(inv), inv.tool_args).tok

\* the merged document the last call was decided on exists
LastHasDocument ==
  /\ LastTool
  /\ ~IsSentinel(last.res.tenant)
  /\ last.res.tenant \in DOMAIN policy_cache

LastDocument == policy_cache[last.res.tenant]

AgentIdsOf(doc) == {doc.allowed_list[i].agent_id : i \in 1..Len(doc.allowed_list)}

C2_NoCredentialDenied ==
  (LastTool /\ OwnCredential(last.inv) = EmptyStr)
    => ~last.res.verdict.allow

\* C3 as stated: an agent_id that equals no agent identifier of the
\* document exactly is denied with the 'agent not defined' reason.
C3_Original ==
  (LastHasDocument /\ agent_id \notin AgentIdsOf(LastDocument))
    => last.res.verdict = Deny("agent_not_defined")

\* C3 amended: an agent_id that, with surrounding whitespace removed, equals
\* (case-sensitively) no agent identifier of the merged document is denied
\* with the 'agent not defined in the policy' reason.
C3_AgentNotDefinedDenied ==
  (LastHasDocument /\ Strip(agent_id) \notin AgentIdsOf(LastDocument))
    => last.res.verdict = Deny("agent_not_defined")

\* an agent whose id differs only in case from a defined one was denied
C3_Witness ==
  /\ LastHasDocument
  /\ Strip(agent_id) \notin AgentIdsOf(LastDocument)
  /\ Lower(agent_id) \in {Lower(a) : a \in AgentIdsOf(LastDocument)}
  /\ last.res.verdict = Deny("agent_not_defined")

\* C4: when the agent has a rule in the merged document and the tool name is
\* not in that rule's allowed tools, the call is denied with the 'tool not
\* allowed for agent' reason.
C4_ToolNotAllowedDenied ==
  LastHasDocument =>
    \A i \in 1..Len(LastDocument.allowed_list) :
      LET rule == LastDocument.allowed_list[i]
      IN (rule.agent_id = Strip(agent_id) /\ last.inv.tool \notin rule.allowed_tools)
           => last.res.verdict = Deny("tool_not_allowed")

\* the agent is defined, another agent of the tenant may use the tool, and
\* the call was denied
C4_Witness ==
  /\ LastHasDocument
  /\ \E i, j \in 1..Len(LastDocument.allowed_list) :
       /\ LastDocument.allowed_list[i].agent_id = Strip(agent_id)
       /\ last.inv.tool \notin LastDocument.allowed_list[i].allowed_tools
       /\ last.inv.tool \in LastDocument.allowed_list[j].allowed_tools
  /\ last.res.verdict = Deny("tool_not_allowed")

\* the delegation tool is allowed for the calling agent in the document
DelegationAllowed ==
  /\ LastHasDocument
  /\ last.inv.tool = "call_remote_agent"
  /\ \E i \in 1..Len(LastDocument.allowed_list) :
       /\ LastDocument.allowed_list[i].agent_id = Strip(agent_id)
       /\ "call_remote_agent" \in LastDocument.allowed_list[i].allowed_tools

AgentNameArg == ArgGet(last.inv.tool_args, "agent_name")

\* C5 as stated: the call is allowed iff agent_name is present and a member
\* of the Valid Target Set; a missing one gets the 'missing target' reason,
\* one outside the set the 'not a valid agent' reason.
C5_Original ==
  DelegationAllowed =>
    /\ last.res.verdict.allow
         <=> (Truthy(AgentNameArg)
              /\ StrOf(AgentNameArg) \in LastDocument.valid_targets)
    /\ ~Truthy(AgentNameArg) => last.res.verdict = Deny("missing_agent_name")
    /\ (Truthy(AgentNameArg)
        /\ StrOf(AgentNameArg) \notin LastDocument.valid_targets)
         => last.res.verdict = Deny("target_not_valid")

\* C5 amended: the call is allowed iff agent_name is present (non-empty)
\* and, with surrounding whitespace removed, a member of the Valid Target
\* Set; a missing agent_name gets the 'missing target' reason, one whose
\* trimmed value is outside the set the 'not a valid agent in this tenant'
\* reason.
C5_DelegationTargetChecked ==
  DelegationAllowed =>
    /\ last.res.verdict.allow
         <=> (Truthy(AgentNameArg)
              /\ Strip(StrOf(AgentNameArg)) \in LastDocument.valid_targets)
    /\ ~Truthy(AgentNameArg) => last.res.verdict = Deny("missing_agent_name")
    /\ (Truthy(AgentNameArg)
        /\ Strip(StrOf(AgentNameArg)) \notin LastDocument.valid_targets)
         => last.res.verdict = Deny("target_not_valid")

\* a delegation to an agent the tenant does not know was denied
C5_Witness ==
  /\ DelegationAllowed
  /\ Truthy(AgentNameArg)
  /\ last.res.verdict = Deny("target_not_valid")

\* the rule the deployment's policy defines for the invoked tool
RuleInForce(tool) ==
  IF tool \in DOMAIN get_tool_rules(policy_payload)
  THEN get_tool_rules(policy_payload)[tool]
  ELSE [k \in {} |-> NoneV]

RequiredRolesOf(tool) ==
  normalize_required_roles(RuleGet(RuleInForce(tool), "required_roles"))

RoleReasons == {"requires_roles", "role_information_missing"}

\* C6: when the rule in force for the tool has required_roles R, a
\* credential whose normalized role set has no element of R is denied (with
\* a role reason when nothing else denies it first), and one whose role set
\* meets R is not denied for its roles.
C6_RequiredRolesEnforced ==
  (LastTool /\ RequiredRolesOf(last.inv.tool) # << >>) =>
    LET user_roles == extract_roles_from_claims(last.res.claims)
    IN IF roles_satisfied(user_roles, RequiredRolesOf(last.inv.tool))
       THEN last.res.verdict.reason \notin RoleReasons
       ELSE ~last.res.verdict.allow

\* a verification key is configured
KeyConfigured == jwt_config.jwt_secret # "" \/ jwt_config.jwt_public_key # ""

VerificationKey ==
  IF jwt_config.jwt_public_key # "" THEN jwt_config.jwt_public_key
  ELSE jwt_config.jwt_secret

\* signature, expiry, algorithm or audience of the located token is wrong
FailsVerification(token) ==
  \/ ~IsJwtString(token)
  \/ ~JWT[token[1]].wf
  \/ JWT[token[1]].key # VerificationKey
  \/ JWT[token[1]].alg # jwt_config.jwt_algorithm
  \/ JWT[token[1]].expired
  \/ /\ jwt_config.jwt_audience # ""
     /\ ClaimGet(JWT[token[1]].claims, "aud") # AudClaim(jwt_config.jwt_audience)

\* C7: with a verification key configured, a located credential that fails
\* verification decodes to the empty claim set and its invocation is denied
\* (as one without a tenant); no other credential source is used instead.
C7_VerificationFailsClosed ==
  (LastTool /\ KeyConfigured /\ last.res.token # EmptyStr
     /\ FailsVerification(last.res.token))
    => /\ ~last.res.raised
       /\ last.res.claims = NoClaims
       /\ last.res.verdict = Deny("no_valid_tenant")

\* a forged or expired credential was denied although the engine remembers
\* a credential that verifies
C7_Witness ==
  /\ LastTool /\ KeyConfigured
  /\ last.res.token # EmptyStr
  /\ IsJwtString(last.res.token) /\ JWT[last.res.token[1]].wf
  /\ FailsVerification(last.res.token)
  /\ last_auth_token # EmptyStr
  /\ decode_jwt(jwt_config, last_auth_token) # NoClaims
  /\ last.res.verdict = Deny("no_valid_tenant")

\* the verdict the tenant, policy and allowlist checks give for a claim set
VerdictForClaims(claims, inv) ==
  LET tenant == extract_tenant_from_claims(claims)
  IN IF IsSentinel(tenant) THEN Deny("no_valid_tenant")
     ELSE IF tenant \notin DOMAIN policy_cache THEN Deny("no_policy_for_tenant")
     ELSE LET v == check_allowlist_rule(agent_id, inv.tool, policy_cache[tenant],
                                        inv.tool_args)
          IN IF v = "" THEN Allow ELSE Deny(v)

\* the same invocation on a deployment that verifies with the issuer's key
VerdictWhenVerified(inv) ==
  before_tool_callback(agent_id, Config(KeyGood, "", ""), policy_cache, policy_files,
                       captured_token_hint, last_auth_token, inv.direct, inv.tool,
                       inv.tool_args, inv.tool_context, inv.callback_context).verdict

\* C8: with no verification key configured, every well-formed token decodes
\* to its claim set unchanged, whoever signed it or if nobody did, and the
\* verdict is the one those claims give - the same a deployment that
\* verifies gives for the token when it verifies there.
C8_TrustOnDecode ==
  (LastTool /\ ~KeyConfigured /\ IsJwtString(last.res.token)
     /\ JWT[last.res.token[1]].wf)
    => /\ last.res.claims = JWT[last.res.token[1]].claims
       /\ last.res.verdict = VerdictForClaims(JWT[last.res.token[1]].claims, last.inv)
       /\ JwtVerifies(JWT[last.res.token[1]], KeyGood, "HS256", "")
            => last.res.verdict = VerdictWhenVerified(last.inv)

\* an unsigned, forged or expired token was accepted and the call allowed
C8_Witness ==
  /\ LastTool /\ ~KeyConfigured
  /\ IsJwtString(last.res.token)
  /\ ~JwtVerifies(JWT[last.res.token[1]], KeyGood, "HS256", "")
  /\ last.res.claims = JWT[last.res.token[1]].claims
  /\ last.res.verdict.allow

\* the tools a document grants an agent
ToolsOf(doc, aid) ==
  UNION { doc.allowed_list[i].allowed_tools :
            i \in {j \in 1..Len(doc.allowed_list) : doc.allowed_list[j].agent_id = aid} }

\* the tenant claim of the last call's credential
LastTenantClaim == ClaimGet(last.res.claims, "tenant")

\* the elements of a list-valued tenant claim
TenantList == [i \in 1..Len(LastTenantClaim.l) |-> StrOf(LastTenantClaim.l[i])]

\* the individual documents of the tenants of the list that have one
IndividualDocuments ==
  {LoadPolicy(policy_files, TenantList[i]) : i \in 1..Len(TenantList)} \ {NoPolicy}

\* C9: a list-valued tenant claim [t1,...,tn] resolves to the Tenant Key
\* "t1,...,tn", and the merged document loaded for that key has as agent
\* identifiers the union of those of the tenants' individual documents and,
\* for each agent, the union of that agent's allowed tools over them.
C9_ListTenantMerged ==
  (LastTool /\ LastTenantClaim.t = "list") =>
    /\ last.res.tenant = JoinComma(TenantList)
    /\ (last.res.cold /\ LastHasDocument) =>
         /\ AgentIdsOf(LastDocument) = UNION {AgentIdsOf(d) : d \in IndividualDocuments}
         /\ \A aid \in AgentIdsOf(LastDocument) :
              ToolsOf(LastDocument, aid) = UNION {ToolsOf(d, aid) : d \in IndividualDocuments}
         /\ LastDocument.valid_targets = AgentIdsOf(LastDocument)

\* a key of two tenants was loaded from two documents that both grant one
\* agent tools, and that agent got the tools of both
C9_Witness ==
  /\ LastTool /\ LastTenantClaim.t = "list"
  /\ last.res.cold /\ LastHasDocument
  /\ Cardinality(IndividualDocuments) >= 2
  /\ \E aid \in AgentIdsOf(LastDocument) :
       \A d \in IndividualDocuments :
         /\ ToolsOf(d, aid) # {}
         /\ ToolsOf(d, aid) # ToolsOf(LastDocument, aid)

\* the same invocation made again right after the last one
SecondCall ==
  before_tool_callback(agent_id, jwt_config, policy_cache, policy_files,
                       captured_token_hint, last_auth_token, last.inv.direct,
                       last.inv.tool, last.inv.tool_args, last.inv.tool_context,
                       last.inv.callback_context)

\* C10 as stated: the second of two consecutive calls with the same input
\* returns the same verdict and performs no cold policy load.
C10_Original ==
  LastTool => (SecondCall.verdict = last.res.verdict /\ ~SecondCall.cold)

\* C10 amended: the second of two consecutive calls with the same input and
\* an unchanged policy source returns the same verdict, and it performs no
\* cold policy load unless that verdict is 'no policy for tenant' (a load
\* that finds no document caches nothing, so it is attempted again).
C10_Idempotent ==
  LastTool =>
    /\ SecondCall.verdict = last.res.verdict
    /\ SecondCall.cold => last.res.verdict = Deny("no_policy_for_tenant")
    /\ SecondCall.cache = policy_cache

\* a call that loaded the policy cold, and whose repetition is a cache hit
C10_Witness ==
  /\ LastTool
  /\ last.res.cold
  /\ last.res.verdict.allow
  /\ SecondCall.verdict = Allow
  /\ ~SecondCall.cold

\* the step is a before_tool_callback that resolved a tenant key
ResolvedStep ==
  /\ last'.op = "before_tool_callback"
  /\ ~last'.res.raised
  /\ ~IsSentinel(last'.res.tenant)

\* C11: a resolve of a tenant key that is not cached and finds a document
\* for none of its constituent tenants reports 'no policy for tenant' and
\* leaves the cache as it was; a resolve of a key that is not cached made
\* when a constituent tenant has a document reads the source and returns
\* (and caches) the policy merged from it.
C11_NoPolicyNotCached ==
  [][ (ResolvedStep /\ last'.res.tenant \notin DOMAIN policy_cache)
        => IF LoadPolicy(policy_files, last'.res.tenant) = NoPolicy
           THEN /\ last'.res.verdict = Deny("no_policy_for_tenant")
                /\ policy_cache' = policy_cache
           ELSE /\ last'.res.verdict # Deny("no_policy_for_tenant")
                /\ last'.res.cold
                /\ last'.res.tenant \in DOMAIN policy_cache'
                /\ policy_cache'[last'.res.tenant]
                     = LoadPolicy(policy_files, last'.res.tenant) ]_vars

\* a credential whose tenant had no document when it was first presented
\* (it is the last token decoded, yet its key was not cached) is presented
\* again after the tenant was provisioned, and the call is decided on the
\* tenant's policy read from the source
C11_Witness ==
  /\ LastTool
  /\ last.res.tenant = << "B" >>
  /\ last.res.repeated
  /\ last.res.cold
  /\ last.res.tenant \in DOMAIN policy_cache
  /\ last.res.verdict # Deny("no_policy_for_tenant")

\* the verdict the allowlist check gives on a document
VerdictOnDocument(doc, tool, tool_args) ==
  IF check_allowlist_rule(agent_id, tool, doc, tool_args) = ""
  THEN Allow
  ELSE Deny(check_allowlist_rule(agent_id, tool, doc, tool_args))

\* C12: no step (a forced fetch_policy, a change of the policy source, a
\* call) removes or changes an entry the cache holds, and a resolve of a
\* cached key reads nothing from the source and is decided on that entry.
C12_CachedEntryKept ==
  [][ /\ \A k \in DOMAIN policy_cache :
           k \in DOMAIN policy_cache' /\ policy_cache'[k] = policy_cache[k]
      /\ (ResolvedStep /\ last'.res.tenant \in DOMAIN policy_cache)
           => /\ ~last'.res.cold
              /\ last'.res.verdict
                   = VerdictOnDocument(policy_cache[last'.res.tenant],
                                       last'.inv.tool, last'.inv.tool_args) ]_vars

\* a call was served from the cache although the source has changed since
\* the entry was built, and its verdict differs from the one the source
\* would give now
C12_Witness ==
  /\ LastHasDocument
  /\ ~last.res.cold
  /\ LastDocument # LoadPolicy(policy_files, last.res.tenant)
  /\ last.res.verdict
       # VerdictOnDocument(LoadPolicy(policy_files, last.res.tenant),
                           last.inv.tool, last.inv.tool_args)

\* ------------------------------------------------------------------
\* Concurrent resolves: _get_policy_for_tenant run by several threads,
\* interleaved statement by statement, while the operator provisions
\* ------------------------------------------------------------------
MaxThreads == 2

ThreadIds == 1..MaxThreads

\* the tenant keys the threads resolve
ResolvedKeys ==
  { TenantNames[1], TenantNames[2], JoinComma(TenantNames) }

\* lines 91-99: the local merged_policy before anything is loaded
Skeleton(tenant_str) ==
  [t |-> "merged_policy", tenant |-> tenant_str, allowed_list |-> << >>]

EmptyAcc == [map |-> << >>, targets |-> {}, found |-> FALSE]

\* variant: the skeleton is put in the cache before it is populated
ResolveBegin_publish(t) ==
  /\ threads[t].pc = "idle"
  /\ \E tenant_str \in ResolvedKeys :
       IF tenant_str \in DOMAIN policy_cache
       THEN /\ threads' = [threads EXCEPT ![t] =
                             [pc |-> "done", key |-> tenant_str,
                              doc |-> policy_cache[tenant_str]]]
            /\ UNCHANGED policy_cache
       ELSE /\ threads' = [threads EXCEPT ![t] =
                             [pc |-> "load", key |-> tenant_str,
                              parts |-> SplitComma(tenant_str, << >>),
                              acc |-> EmptyAcc]]
            /\ policy_cache' = [k \in DOMAIN policy_cache \cup {tenant_str} |->
                                  IF k = tenant_str THEN Skeleton(tenant_str)
                                  ELSE policy_cache[k]]
  /\ UNCHANGED << agent_id, jwt_config, policy, last_auth_token,
                  captured_token_hint, policy_files, last, probe, requests, tunnel, executor >>

\* lines 88-99: the cache is looked up; a hit returns the entry, a miss
\* starts a load with locals of its own
ResolveBegin(t) ==
  /\ threads[t].pc = "idle"
  /\ \E tenant_str \in ResolvedKeys :
       IF tenant_str \in DOMAIN policy_cache
       THEN threads' = [threads EXCEPT ![t] =
                          [pc |-> "done", key |-> tenant_str,
                           doc |-> policy_cache[tenant_str]]]
       ELSE threads' = [threads EXCEPT ![t] =
                          [pc |-> "load", key |-> tenant_str,
                           parts |-> SplitComma(tenant_str, << >>),
                           acc |-> EmptyAcc]]
  /\ UNCHANGED << agent_id, jwt_config, policy, policy_cache, last_auth_token,
                  captured_token_hint, policy_files, last, probe, requests, tunnel, executor >>

\* lines 101-136: the file of one constituent tenant is read and merged
ResolveLoad(t) ==
  /\ threads[t].pc = "load"
  /\ threads[t].parts # << >>
  /\ threads' = [threads EXCEPT
                   ![t].acc = MergeTenant(policy_files, @, Head(threads[t].parts)),
                   ![t].parts = Tail(@)]
  /\ UNCHANGED << agent_id, jwt_config, policy, policy_cache, last_auth_token,
                  captured_token_hint, policy_files, last, probe, requests, tunnel, executor >>

\* lines 138-140 and 147: the local document is populated, or {} returned
ResolvePopulate(t) ==
  /\ threads[t].pc = "load"
  /\ threads[t].parts = << >>
  /\ threads' = [threads EXCEPT ![t] =
                   IF threads[t].acc.found
                   THEN [pc |-> "insert", key |-> threads[t].key,
                         doc |-> [t |-> "merged_policy", tenant |-> threads[t].key,
                                  allowed_list |-> threads[t].acc.map,
                                  valid_targets |-> threads[t].acc.targets]]
                   ELSE [pc |-> "done", key |-> threads[t].key, doc |-> NoPolicy]]
  /\ UNCHANGED << agent_id, jwt_config, policy, policy_cache, last_auth_token,
                  captured_token_hint, policy_files, last, probe, requests, tunnel, executor >>

\* line 142: the populated document is stored under the key
ResolveInsert(t) ==
  /\ threads[t].pc = "insert"
  /\ policy_cache' = [k \in DOMAIN policy_cache \cup {threads[t].key} |->
                        IF k = threads[t].key THEN threads[t].doc
                        ELSE policy_cache[k]]
  /\ threads' = [threads EXCEPT ![t].pc = "done"]
  /\ UNCHANGED << agent_id, jwt_config, policy, last_auth_token,
                  captured_token_hint, policy_files, last, probe, requests, tunnel, executor >>

\* the caller has the document; the thread is free again
ResolveReturn(t) ==
  /\ threads[t].pc = "done"
  /\ threads' = [threads EXCEPT ![t] = Idle]
  /\ UNCHANGED << agent_id, jwt_config, policy, policy_cache, last_auth_token,
                  captured_token_hint, policy_files, last, probe, requests, tunnel, executor >>

InitConcurrent ==
  /\ agent_id = agentO
  /\ jwt_config = Config("", "", "")
  /\ policy = EmptyPolicy
  /\ policy_cache = EmptyCache
  /\ captured_token_hint = EmptyStr
  /\ last_auth_token = EmptyStr
  /\ policy_files = [stem \in FileStems |->
                       IF stem = << "a" >> THEN ProvisionedFile(stem)
                       ELSE IF stem = << "b" >> THEN Corrupt ELSE Absent]
  /\ last = [op |-> "init"]
  /\ threads = [t \in ThreadIds |-> Idle]
  /\ probe = NoProbe
  /\ HostIdle

NextConcurrent ==
  \/ \E t \in ThreadIds :
       \/ ResolveBegin(t)
       \/ ResolveLoad(t)
       \/ ResolvePopulate(t)
       \/ ResolveInsert(t)
       \/ ResolveReturn(t)
  \/ WritePolicyFile

SpecConcurrent == InitConcurrent /\ [][NextConcurrent]_vars

\* the contents the file of a tenant can have had at any time
FileHistory(stem) ==
  { ProvisionedFile(stem),
    IF stem = << "a" >> THEN ProvisionedFile(stem)
    ELSE IF stem = << "b" >> THEN Corrupt ELSE Absent }

\* the states the policy source can have been read in, file by file
SourceSnapshots ==
  { fs \in [FileStems -> UNION {FileHistory(stem) : stem \in FileStems}] :
      \A stem \in FileStems : fs[stem] \in FileHistory(stem) }

\* a complete merged document of the key: every field is there, the Valid
\* Target Set is the set of the agents of the rule list, and the rules are
\* the merge of files the constituent tenants had
Complete(doc, tenant_str) ==
  /\ DOMAIN doc = {"t", "tenant", "allowed_list", "valid_targets"}
  /\ doc.tenant = tenant_str
  /\ doc.valid_targets = AgentIdsOf(doc)
  /\ \E fs \in SourceSnapshots : doc = LoadPolicy(fs, tenant_str)

InitHelpers ==
  /\ agent_id = agentO
  /\ jwt_config = Config("", "", "")
  /\ policy = EmptyPolicy
  /\ policy_cache = EmptyCache
  /\ captured_token_hint = EmptyStr
  /\ last_auth_token = EmptyStr
  /\ policy_files = [stem \in FileStems |->
                       IF stem = << "a" >> THEN ProvisionedFile(stem)
                       ELSE IF stem = << "b" >> THEN Corrupt ELSE Absent]
  /\ last = [op |-> "init"]
  /\ threads = << >>
  /\ probe = NoProbe
  /\ HostIdle

\* the values the fields _captured_token_hint and _last_auth_token can hold
HintValues == {EmptyStr} \cup { << n >> : n \in TokenNames }

\* before_tool_callback on an engine whose two remembered tokens hold any
\* values, next to the same call on an engine that remembers nothing
VerdictProbe ==
  /\ probe = NoProbe
  /\ \E d \in Deployments, inv \in Invocations, hint \in HintValues,
        last_tok \in HintValues :
       probe' = [op |-> "before_tool_callback", agent_id |-> d[1], cfg |-> d[2],
                 inv |-> inv, hint |-> hint, last_tok |-> last_tok,
                 verdict |->
                   before_tool_callback(d[1], d[2], policy_cache, policy_files,
                                        hint, last_tok, inv.direct, inv.tool,
                                        inv.tool_args, inv.tool_context,
                                        inv.callback_context).verdict,
                 fresh |->
                   before_tool_callback(d[1], d[2], policy_cache, policy_files,
                                        EmptyStr, EmptyStr, inv.direct, inv.tool,
                                        inv.tool_args, inv.tool_context,
                                        inv.callback_context).verdict]
  /\ UNCHANGED << agent_id, jwt_config, policy, policy_cache, last_auth_token,
                  captured_token_hint, policy_files, last, threads, requests, tunnel, executor >>

\* the credentials a context is built around
Credentials ==
  {NoneV, Str(EmptyStr)} \cup { Bearer(n) : n \in TokenNames }
  \cup { Str(<< n >>) : n \in TokenNames }

\* the call contexts walked: mappings, objects and sequences, with cycles
ContextShapes ==
  { "empty_dict", "hdr_dict", "hdrs", "state_obj", "nested", "junk_hdrs",
    "shadowed", "auth_empty", "cyc_obj", "cyc_dict", "cyc_list" }

\* _extract_token_from_container on a call context
WalkProbe ==
  /\ probe = NoProbe
  /\ \E n \in ContextShapes, c \in Credentials :
       probe' = [op |-> "extract_token_from_container", container |-> Ptr(n, c),
                 out |-> extract_token_from_container(Ptr(n, c), {})]
  /\ UNCHANGED << agent_id, jwt_config, policy, policy_cache, last_auth_token,
                  captured_token_hint, policy_files, last, threads, requests, tunnel, executor >>

\* _extract_auth_token with a different credential in each location
LocateProbe ==
  /\ probe = NoProbe
  /\ \E direct \in {NoneV, Str(<< "Ta" >>)},
        tool_context \in {NoneV, Ptr("state_obj", Str(<< "Tl" >>)),
                          Ptr("hdr_dict", Bearer("Td")), Ptr("empty_dict", NoneV),
                          Ptr("junk_hdrs", NoneV), Ptr("cyc_obj", Bearer("Td"))},
        tool_args \in {NoArgs, [auth_token |-> Bearer("Tb")],
                       [token |-> NoneV, authorization |-> Bearer("Te")]},
        hint \in {EmptyStr, << "Tn" >>},
        last_tok \in {EmptyStr, << "Tx" >>} :
       probe' = [op |-> "extract_auth_token", direct |-> direct,
                 tool_context |-> tool_context, tool_args |-> tool_args,
                 hint |-> hint, last_tok |-> last_tok,
                 out |-> extract_auth_token(direct, hint, last_tok, tool_context,
                                            tool_args)]
  /\ UNCHANGED << agent_id, jwt_config, policy, policy_cache, last_auth_token,
                  captured_token_hint, policy_files, last, threads, requests, tunnel, executor >>

\* the values a tenant claim can hold: TenantValue = Union[str, List[str]]
TenantValues ==
  { Str(EmptyStr), Str(TenantNames[1]), Str(<< " ", "B" >>), List(<< >>),
    List([i \in 1..MaxTenants |-> Str(TenantNames[i])]),
    List(<< Str(<< " ", "B" >>), Str(TenantNames[1]) >>) }

TenantKeys == {"tenant", "tid", "tenant_id", "org_id"}

\* the claim sets that carry any of the four tenant claims, or none
TenantClaimSets == UNION { [K -> TenantValues] : K \in SUBSET TenantKeys }

\* _extract_tenant_from_claims on a claim set
TenantProbe ==
  /\ probe = NoProbe
  /\ \E claims \in TenantClaimSets :
       probe' = [op |-> "extract_tenant_from_claims", claims |-> claims,
                 out |-> extract_tenant_from_claims(claims)]
  /\ UNCHANGED << agent_id, jwt_config, policy, policy_cache, last_auth_token,
                  captured_token_hint, policy_files, last, threads, requests, tunnel, executor >>

\* a key the mapping does not have
Missing == [t |-> "missing"]

\* the mapping of the entries of rec that are not Missing
Mapping(rec) == [k \in {k \in DOMAIN rec : rec[k] # Missing} |-> rec[k]]

\* the tool rules evaluated: every combination of the five checks, each
\* absent or configured, and a rule with no key the evaluation knows
ToolRules ==
  { Mapping([allowed_agents |-> aa, max_task_length |-> tl, requires_auth |-> ra,
             required_roles |-> rr, max_results |-> mr]) :
      aa \in {Missing, List(<< Str(agentD) >>)},
      tl \in {Missing, IntV(0), IntV(2), Str(<< "2" >>)},
      ra \in {Missing, BoolV(TRUE), Str(<< "O", "f", "f" >>)},
      rr \in {Missing, List(<< Str(roleAdmin) >>)},
      mr \in {Missing, IntV(1), Str(<< "1" >>)} }
  \cup { [note |-> Str(<< "x" >>)] }

\* the argument mappings a model passes to a tool
RuleArgs ==
  { Mapping([agent_name |-> an, task |-> tk, limit |-> lm]) :
      an \in {Missing, Str(agentD), Str(agentZ)},
      tk \in {Missing, NoneV, Str(<< "a", "b" >>), Str(<< "a", "b", "c" >>)},
      lm \in {Missing, IntV(1), IntV(2), Str(<< "2" >>)} }

\* _check_tool_rule on a rule, an argument mapping and a call context
RuleProbe ==
  /\ probe = NoProbe
  /\ \E rule \in ToolRules, tool_args \in RuleArgs,
        tool_context \in {NoneV, Ptr("hdr_dict", Bearer("Ta"))} :
       probe' = [op |-> "check_tool_rule", rule |-> rule, tool_args |-> tool_args,
                 tool_context |-> tool_context,
                 out |-> check_tool_rule(jwt_config, NoneV, captured_token_hint,
                                         last_auth_token, "call_remote_agent",
                                         tool_args, rule, tool_context)]
  /\ UNCHANGED << agent_id, jwt_config, policy, policy_cache, last_auth_token,
                  captured_token_hint, policy_files, last, threads, requests, tunnel, executor >>

\* what a caller sees of a before_tool_callback result
Outcome(r) == [verdict |-> r.verdict, raised |-> r.raised, token |-> r.token]

\* the contexts handed over as callback_context or tool_context: none, an
\* empty mapping, mappings and objects with and without a credential
BothContexts ==
  { NoneV, Ptr("empty_dict", NoneV), Ptr("plain", NoneV),
    Ptr("hdr_dict", Bearer("Ta")), Ptr("hdr_dict", Bearer("Tb")),
    Ptr("hdr_dict", Bearer("Tn")), Ptr("state_obj", Str(<< "Tl" >>)),
    Ptr("junk_hdrs", Bearer("Ta")) }

\* before_tool_callback with both contexts, next to the same call with
\* each of the two contexts as the only one
ContextProbe ==
  /\ probe = NoProbe
  /\ \E d \in Deployments, c \in BasicCalls, hint \in {EmptyStr, << "Tb" >>},
        callback_context \in BothContexts, tool_context \in BothContexts :
       probe' = [op |-> "call_context", agent_id |-> d[1], cfg |-> d[2],
                 tool |-> c[1], tool_args |-> c[2], hint |-> hint,
                 callback_context |-> callback_context,
                 tool_context |-> tool_context,
                 out |-> Outcome(before_tool_callback(
                           d[1], d[2], policy_cache, policy_files, hint, EmptyStr,
                           NoneV, c[1], c[2], tool_context, callback_context)),
                 callback_only |-> Outcome(before_tool_callback(
                           d[1], d[2], policy_cache, policy_files, hint, EmptyStr,
                           NoneV, c[1], c[2], callback_context, NoneV)),
                 tool_only |-> Outcome(before_tool_callback(
                           d[1], d[2], policy_cache, policy_files, hint, EmptyStr,
                           NoneV, c[1], c[2], tool_context, NoneV))]
  /\ UNCHANGED << agent_id, jwt_config, policy, policy_cache, last_auth_token,
                  captured_token_hint, policy_files, last, threads, requests, tunnel, executor >>

\* claims.get("sub") or claims.get("email") or claims.get("user") or "<unknown>"
SubjectOf(claims) ==
  IF Truthy(ClaimGet(claims, "sub")) THEN ClaimGet(claims, "sub")
  ELSE IF Truthy(ClaimGet(claims, "email")) THEN ClaimGet(claims, "email")
  ELSE IF Truthy(ClaimGet(claims, "user")) THEN ClaimGet(claims, "user")
  ELSE Str(<< "<", "u", "n", "k", "n", "o", "w", "n", ">" >>)

\* one printed record: the event with the subject and roles it names
Record(event, claims) ==
  [event |-> event, subject |-> SubjectOf(claims),
   roles |-> extract_roles_from_claims(claims)]

\* the records a before_tool_callback prints: the token inspection and the
\* policy binding of _get_auth_claims (lines 637-638); the verdict lines
\* (259, 262) name neither subject nor roles
PrintedByCall(r) ==
  IF r.claims = NoClaims THEN << >>
  ELSE << Record(log_token_inspection(r), r.claims),
          Record("policy binding", r.claims) >>

\* fetch_policy: its body is pass, it prints nothing and changes nothing
fetch_policy(tool_context, tool_args, force) == [printed |-> << >>]

\* fetch_policy on a call context, as the executors call it
FetchProbe ==
  /\ probe = NoProbe
  /\ \E tool_context \in BothContexts, force \in BOOLEAN :
       probe' = [op |-> "fetch_policy", tool_context |-> tool_context,
                 force |-> force,
                 out |-> fetch_policy(tool_context, NoneV, force)]
  /\ UNCHANGED << agent_id, jwt_config, policy, policy_cache, last_auth_token,
                  captured_token_hint, policy_files, last, threads, requests, tunnel, executor >>

\* a policy file with a rule whose allowed_tools is null
MalformedFile ==
  PolicyFile(<< Rule(Str(agentO), {"call_remote_agent"}), Rule(Str(agentZ), NotIterable),
                Rule(Str(agentE), {"get_status"}) >>)

\* the policy sources a resolve can find: each tenant's file absent,
\* unreadable, provisioned, or provisioned with the malformed rule
PolicySources ==
  { fs \in [FileStems -> {Absent, Corrupt, MalformedFile}
                           \cup {ProvisionedFile(stem) : stem \in FileStems}] :
      \A stem \in FileStems :
        fs[stem] \in {Absent, Corrupt, MalformedFile, ProvisionedFile(stem)} }

\* two resolves on a new instance: the cache they leave
ResolveProbe ==
  /\ probe = NoProbe
  /\ \E fs \in PolicySources, k1 \in ResolvedKeys, k2 \in ResolvedKeys :
       probe' = [op |-> "get_policy_for_tenant", fs |-> fs, keys |-> << k1, k2 >>,
                 cache |-> get_policy_for_tenant(
                             get_policy_for_tenant(EmptyCache, fs, k1).cache,
                             fs, k2).cache]
  /\ UNCHANGED << agent_id, jwt_config, policy, policy_cache, last_auth_token,
                  captured_token_hint, policy_files, last, threads, requests, tunnel, executor >>

\* the initial_auth_token an instance is constructed with
BootstrapTokens == {NoneV, Bearer("Ta"), Bearer("Tm"), Str(<< "Tl" >>)}

\* what two consecutive calls leave of their _get_auth_claims
Inspection(r) ==
  [claims |-> r.claims, token |-> r.token, last_tok |-> r.last_tok,
   repeated |-> r.repeated, raised |-> r.raised, event |-> log_token_inspection(r),
   printed |-> PrintedByCall(r)]

\* the second of two consecutive calls: the instance as the first left it
SecondOf(d, boot, inv, first) ==
  before_tool_callback(d[1], d[2], first.cache, policy_files, boot, first.last_tok,
                       inv.direct, inv.tool, inv.tool_args, inv.tool_context,
                       inv.callback_context)

\* a new instance, then two consecutive before_tool_callback calls with
\* the same invocation
ReuseProbe ==
  /\ probe = NoProbe
  /\ \E d \in Deployments, initial_auth_token \in BootstrapTokens,
        inv \in Invocations :
      \E boot \in {ingest_initial_auth(initial_auth_token, NoneV, NoneV)} :
      \E first \in {before_tool_callback(d[1], d[2], policy_cache, policy_files,
                                         boot, boot, inv.direct, inv.tool,
                                         inv.tool_args, inv.tool_context,
                                         inv.callback_context)} :
       probe' = [op |-> "two_calls", agent_id |-> d[1], cfg |-> d[2],
                 boot |-> boot, inv |-> inv, first |-> Inspection(first),
                 second |-> Inspection(SecondOf(d, boot, inv, first))]
  /\ UNCHANGED << agent_id, jwt_config, policy, policy_cache, last_auth_token,
                  captured_token_hint, policy_files, last, threads, requests, tunnel, executor >>

\* the callback contexts a model call comes with: none, an empty state, an
\* empty session state, a state or headers that hold a credential
ModelContexts ==
  { NoneV, Ptr("state_blank", NoneV), Ptr("session_blank", NoneV),
    Ptr("state_obj", Bearer("Tn")), Ptr("hdr_dict", Bearer("Tn")) }

\* before_model_callback on an instance that remembers hint and last_tok
ModelProbe ==
  /\ probe = NoProbe
  /\ \E direct \in {NoneV, Str(<< "Ta" >>)}, hint \in {EmptyStr, << "Th" >>},
        last_tok \in {EmptyStr, << "Tl" >>}, callback_context \in ModelContexts :
       \E r \in {before_model_callback(direct, hint, last_tok, callback_context)} :
         probe' = [op |-> "before_model", direct |-> direct, hint |-> hint,
                   last_tok |-> last_tok, callback_context |-> callback_context,
                   out |-> r, forwarded |-> ForwardedHeader(r.written)]
  /\ UNCHANGED << agent_id, jwt_config, policy, policy_cache, last_auth_token,
                  captured_token_hint, policy_files, last, threads, requests, tunnel, executor >>

NextHelpers == ModelProbe \/ VerdictProbe \/ WalkProbe \/ LocateProbe \/ TenantProbe \/ RuleProbe \/ ContextProbe \/ ReuseProbe \/ FetchProbe \/ ResolveProbe

SpecHelpers == InitHelpers /\ [][NextHelpers]_vars

\* ------------------------------------------------------------------
\* The hosts: the delivery agent's HTTP middleware and the
\* orchestrator's executor
\* ------------------------------------------------------------------
\* the Authorization headers a request comes with: none, a bearer
\* credential, one with a lower-case prefix and two spaces, a bare credential
AuthHeaders ==
  { NoneV, Bearer("Ta"), Str(<< "b", "e", "a", "r", "e", "r", " ", " ", "Tb" >>),
    Str(<< "Tl" >>) }

\* variant: every request task runs in the server's one context
ContextOf_shared(r) == 0

\* policy_enforcement.py line 10: GLOBAL_REQUEST_TOKEN is a ContextVar, and
\* the task that serves request r runs in its own copy of the server's context
ContextOf(r) == r

\* __main__.py lines 69-71: the value the middleware puts into the tunnel
token_val(auth_header) ==
  IF StartsWith(Lower(auth_header.s), BearerPrefix)
  THEN Strip(SubSeq(auth_header.s, 8, Len(auth_header.s)))
  ELSE auth_header.s

\* ContextVar.set: the Token keeps the value the variable had
Token(old_value) == [t |-> "token", old_value |-> old_value]

\* a request being served is between its middleware's entry and exit
InFlight(q) == requests[q].pc \in {"handling", "read"}

\* lines 64-80: a request arrives, its task starts from a copy of the
\* server's context, and the middleware runs up to await call_next(request)
MiddlewareEnter(r) ==
  /\ requests[r].pc = "idle"
  /\ \E auth_header \in AuthHeaders :
       /\ tunnel' = [tunnel EXCEPT ![ContextOf(r)] =
                       IF Truthy(auth_header) THEN Str(token_val(auth_header))
                       ELSE tunnel[0]]
       /\ requests' = [requests EXCEPT ![r] =
                         [pc |-> "handling", auth_header |-> auth_header,
                          before |-> tunnel[0],
                          token_reset_token |-> IF Truthy(auth_header)
                                                THEN Token(tunnel[0]) ELSE NoneV,
                          overlapped |-> \E q \in RequestIds \ {r} : InFlight(q),
                          seen |-> [t |-> "unread"]]]
  /\ UNCHANGED << agent_id, jwt_config, policy, policy_cache, last_auth_token,
                  captured_token_hint, policy_files, last, threads, probe, executor >>

\* policy_enforcement.py lines 486-490: inside call_next the plugin reads
\* GLOBAL_REQUEST_TOKEN.get() in the context of the request
TunnelRead(r) ==
  /\ requests[r].pc = "handling"
  /\ requests' = [requests EXCEPT ![r].pc = "read",
                                  ![r].seen = tunnel[ContextOf(r)]]
  /\ UNCHANGED << agent_id, jwt_config, policy, policy_cache, last_auth_token,
                  captured_token_hint, policy_files, last, threads, probe, tunnel,
                  executor >>

\* lines 79-85: call_next returns or raises, and the finally block resets
\* the variable when the middleware had set it
MiddlewareExit(r) ==
  /\ InFlight(r)
  /\ \E outcome \in {"response", "exception"} :
       /\ tunnel' = IF requests[r].token_reset_token # NoneV
                    THEN [tunnel EXCEPT ![ContextOf(r)] =
                            requests[r].token_reset_token.old_value]
                    ELSE tunnel
       /\ requests' = [requests EXCEPT ![r] =
                         [pc |-> "done", auth_header |-> requests[r].auth_header,
                          before |-> requests[r].before,
                          overlapped |-> requests[r].overlapped,
                          seen |-> requests[r].seen, outcome |-> outcome,
                          after |-> tunnel'[ContextOf(r)]]]
  /\ UNCHANGED << agent_id, jwt_config, policy, policy_cache, last_auth_token,
                  captured_token_hint, policy_files, last, threads, probe, executor >>

\* the session id the executor was constructed with
SessionId == "s1"

\* InMemorySessionService.create_session as execute sees it: the session is
\* stored, or AlreadyExistsError, or another exception
create_session(sessions, session_id, service) ==
  IF session_id \in sessions
  THEN [sessions |-> sessions, raised |-> "AlreadyExistsError"]
  ELSE IF service = "fails"
  THEN [sessions |-> sessions, raised |-> "Exception"]
  ELSE [sessions |-> sessions \cup {session_id}, raised |-> "none"]

\* agent_executor.py lines 38-105: the executor after one execute; service is
\* how the session service answers, run what the runner yields
execute(ex, service, run) ==
  LET \* lines 41-49
      Ensured(attempted, created) ==
        [session_created |-> IF attempted THEN TRUE ELSE ex.session_created,
         sessions |-> created.sessions,
         attempted |-> attempted,
         create |-> created.raised,
         \* an exception other than AlreadyExistsError leaves the outer try
         failed |-> created.raised \notin {"none", "AlreadyExistsError"}]
      \* lines 76-85: the runner raises when the session is not there
      Ran(e) ==
        IF e.failed THEN "skipped"
        ELSE IF SessionId \notin e.sessions THEN "raises"
        ELSE run
      \* lines 87-105: the final response, or the error message of the handler
      Enqueued(ran) ==
        IF ran = "text" THEN << "final_response" >>
        ELSE IF ran = "no_text" THEN << "no_response" >>
        ELSE << "error" >>
      Done(e) ==
        [session_created |-> e.session_created, sessions |-> e.sessions,
         call |-> [op |-> "execute", attempted |-> e.attempted,
                   create |-> e.create, ran |-> Ran(e),
                   enqueued |-> Enqueued(Ran(e))]]
  IN IF ex.session_created
     THEN Done(Ensured(FALSE, [sessions |-> ex.sessions, raised |-> "none"]))
     ELSE Done(Ensured(TRUE, create_session(ex.sessions, SessionId, service)))

\* one request handed to the executor
Execute ==
  /\ \E service \in {"stores", "fails"}, run \in {"text", "no_text", "raises"} :
       executor' = execute(executor, service, run)
  /\ UNCHANGED << agent_id, jwt_config, policy, policy_cache, last_auth_token,
                  captured_token_hint, policy_files, last, threads, probe, requests,
                  tunnel >>

NextHost ==
  \/ \E r \in RequestIds : MiddlewareEnter(r)
  \/ \E r \in RequestIds : TunnelRead(r)
  \/ \E r \in RequestIds : MiddlewareExit(r)
  \/ Execute

SpecHost == InitHelpers /\ [][NextHost]_vars

Walked == probe.op = "extract_token_from_container"

\* C15: for every call context, those with cycles through mappings,
\* sequences and attributes included, _extract_token_from_container ends
\* and returns a string (possibly empty); it does not raise.
C15_WalkReturnsString ==
  Walked => ~probe.out.raised

Located == probe.op = "extract_auth_token"

\* the credential of each location of the search, in the order of the claim
LocationsInOrder ==
  << probe.direct, StateToken(PossibleStates(probe.tool_context)),
     ArgGet(probe.tool_args, "auth_token"), ArgGet(probe.tool_args, "token"),
     ArgGet(probe.tool_args, "Authorization"),
     ArgGet(probe.tool_args, "authorization"),
     Str(extract_token_from_container(probe.tool_context, {}).tok),
     Str(extract_token_from_container(GetAttr(probe.tool_context, "metadata"),
                                      {}).tok),
     Str(probe.hint), Str(probe.last_tok) >>

\* C16: _extract_auth_token returns the normalized credential of the first
\* location, in the order direct tunnel, state containers, argument
\* entries, context walk, metadata walk, hint, last token, that holds one;
\* a location holding none does not keep the later ones from being tried.
C16_FirstLocationWins ==
  Located =>
    /\ ~probe.out.raised
    /\ probe.out.tok = FirstCleaned(LocationsInOrder)

\* the mapping-shaped contexts that hold the credential under a header key
\* of the mapping, of its headers entry, or of a mapping reached through a
\* chain of nested keys
CredentialShapes ==
  { "hdr_dict", "hdrs", "nested", "junk_hdrs", "shadowed", "auth_empty" }

\* C17: for a mapping-shaped context that holds a non-empty credential in
\* one of those places, whatever its own headers entry holds, the walk
\* returns a non-empty credential.
C17_WalkFindsCredential ==
  (/\ Walked
   /\ probe.container.n \in CredentialShapes
   /\ sanitize_bearer(probe.container.c) # EmptyStr)
    => (~probe.out.raised /\ probe.out.tok # EmptyStr)

\* C18: whether the audit emission is delivered, fails with a transport
\* error or times out, _send_log does not raise and the verdict returned is
\* the one decided: the denial with the reason the audit event carries.
C18_AuditOutageHarmless ==
  (LastTool /\ last.res.log # "none")
    => /\ ~last.res.raised
       /\ last.res.verdict = Deny(last.res.audit.reason)

\* the audit sink timed out on the event of a denied tool, and the call
\* was denied with that reason
C18_Witness ==
  /\ LastTool
  /\ last.res.log = "timeout"
  /\ last.res.audit.reason = "tool_not_allowed"
  /\ last.res.verdict = Deny("tool_not_allowed")

\* C19: every deny verdict - no valid tenant, no policy for tenant, or a
\* rule violation - is preceded within the invocation by an attempt to emit
\* an audit record {agent_id, type, tool, reason, tenant} for it.
C19_EveryDenialAudited ==
  (LastTool /\ ~last.res.raised /\ ~last.res.verdict.allow)
    => /\ last.res.log # "none"
       /\ DOMAIN last.res.audit = {"agent_id", "type", "tool", "reason", "tenant"}

TenantExtracted == probe.op = "extract_tenant_from_claims"

TenantOrder == << "tenant", "tid", "tenant_id", "org_id" >>

\* the string of a claim value: a scalar as it is, a list joined by commas
AsWritten(v) ==
  IF v.t = "list" THEN JoinComma([i \in 1..Len(v.l) |-> StrOf(v.l[i])])
  ELSE StrOf(v)

\* C20 as stated: the value of the first present claim in the order tenant,
\* tid, tenant_id, org_id, a scalar as that string and a list joined by
\* commas; the sentinel only when none of the four is present.
C20_Original ==
  TenantExtracted =>
    IF DOMAIN probe.claims = {} THEN probe.out = NoTenant
    ELSE \E i \in 1..4 :
           /\ TenantOrder[i] \in DOMAIN probe.claims
           /\ \A j \in 1..(i - 1) : TenantOrder[j] \notin DOMAIN probe.claims
           /\ probe.out = AsWritten(probe.claims[TenantOrder[i]])

\* the string of a claim value: a scalar with the surrounding whitespace
\* removed, a list joined by commas with each element as it is
AsReturned(v) == IF v.t = "list" THEN AsWritten(v) ELSE Strip(StrOf(v))

\* C20 amended: the value of the tenant claim when it is present; else the
\* value of the first non-empty claim among tid, tenant_id, org_id in that
\* order; when none of the three is non-empty, the (empty) value of org_id
\* if org_id is present and the 'no tenant' sentinel otherwise.  A scalar
\* yields that string with surrounding whitespace removed, a list its
\* elements joined by commas in original order.
C20_TenantResolution ==
  TenantExtracted =>
    IF "tenant" \in DOMAIN probe.claims
    THEN probe.out = AsReturned(probe.claims.tenant)
    ELSE IF \E i \in 2..4 : Truthy(ClaimGet(probe.claims, TenantOrder[i]))
    THEN \E i \in 2..4 :
           /\ Truthy(ClaimGet(probe.claims, TenantOrder[i]))
           /\ \A j \in 2..(i - 1) : ~Truthy(ClaimGet(probe.claims, TenantOrder[j]))
           /\ probe.out = AsReturned(probe.claims[TenantOrder[i]])
    ELSE IF "org_id" \in DOMAIN probe.claims
    THEN probe.out = AsReturned(probe.claims.org_id)
    ELSE probe.out = NoTenant

\* an empty tid is passed over for the tenant_id list that follows it
C20_Witness ==
  /\ TenantExtracted
  /\ "tenant" \notin DOMAIN probe.claims
  /\ ClaimGet(probe.claims, "tid") = Str(EmptyStr)
  /\ ClaimGet(probe.claims, "tenant_id").t = "list"
  /\ Len(ClaimGet(probe.claims, "tenant_id").l) > 1
  /\ probe.out = AsWritten(probe.claims.tenant_id)

RuleProbed == probe.op = "check_tool_rule"

\* the credential _extract_auth_token resolves for the probed evaluation
ProbedCredential ==
  extract_auth_token(NoneV, captured_token_hint, last_auth_token,
                     probe.tool_context, probe.tool_args).tok

\* C21: for a rule with the authentication-required flag, an evaluation
\* that no other check denies is denied when no credential is resolvable,
\* and otherwise passes and leaves the credential's subject in the argument
\* mapping the caller supplied.
C21_AuthContextInjected ==
  (RuleProbed /\ RequiresAuth(probe.rule)
     /\ probe.out.violation \in {"", "authentication_required"}) =>
    IF ProbedCredential = EmptyStr
    THEN probe.out.violation = "authentication_required"
    ELSE /\ probe.out.violation = ""
         /\ \E k \in DOMAIN probe.out.tool_args :
              probe.out.tool_args[k]
                = ClaimGet(decode_jwt(jwt_config, ProbedCredential), "sub")

ContextProbed == probe.op = "call_context"

TwoCalls == probe.op = "two_calls"

\* the _last_auth_token a call leaves: the located token when it decodes to
\* a non-empty claim set, the one it found otherwise
RemembersDecoded(a, before) ==
  a.last_tok = IF a.claims # NoClaims THEN a.token ELSE before

\* C23 as stated: _last_auth_token becomes the located token exactly when
\* it decodes to a non-empty claim set; a located token is reported as a
\* reuse iff it equals the _last_auth_token found; and of two consecutive
\* calls on a new instance with the same valid token the first is reported
\* as a load and the second as a reuse.
C23_Original ==
  TwoCalls =>
    /\ RemembersDecoded(probe.first, probe.boot)
    /\ RemembersDecoded(probe.second, probe.first.last_tok)
    /\ probe.first.token # EmptyStr =>
         (probe.first.event = "JWT reuse" <=> probe.first.token = probe.boot)
    /\ probe.first.claims # NoClaims =>
         (probe.first.event = "JWT load" /\ probe.second.event = "JWT reuse")

\* C23 amended: _last_auth_token becomes the located token exactly when it
\* decodes to a non-empty claim set; exactly then the extraction is
\* reported, as a reuse iff the token equals the _last_auth_token found
\* (the constructor's bootstrap token included) and as a load otherwise;
\* of two consecutive calls with the same valid token the second is
\* reported as a reuse, and the first as a load iff the instance was not
\* constructed with that token.
C23_ReuseReported ==
  TwoCalls =>
    /\ RemembersDecoded(probe.first, probe.boot)
    /\ RemembersDecoded(probe.second, probe.first.last_tok)
    /\ (probe.first.event # "none") <=> (probe.first.claims # NoClaims)
    /\ probe.first.claims # NoClaims =>
         /\ probe.first.event = "JWT reuse" <=> probe.first.token = probe.boot
         /\ probe.second.token = probe.first.token
         /\ probe.second.event = "JWT reuse"

\* a new instance without bootstrap token: the first call with a valid
\* token is a load, the second a reuse
C23_Witness ==
  /\ TwoCalls
  /\ probe.boot = EmptyStr
  /\ probe.first.token = << "Ta" >>
  /\ probe.first.event = "JWT load"
  /\ probe.first.last_tok = << "Ta" >>
  /\ probe.second.event = "JWT reuse"

\* the printed records hold a policy-load-complete record naming the
\* subject and roles of the claims
LoadCompleteFor(printed, claims) ==
  \E i \in 1..Len(printed) : printed[i] = Record("policy load complete", claims)

\* the claims of the credential a context carries
ClaimsCarried(ctx) ==
  decode_jwt(jwt_config, extract_token_from_container(ctx, {}).tok)

\* C24: fetch_policy with a call context that carries a valid credential,
\* and the first before_tool_callback of a new instance that gets the
\* credential through callback_context, print a policy-load-complete
\* record naming the credential's subject and roles.
C24_PolicyLoadLogged ==
  /\ (probe.op = "fetch_policy" /\ ClaimsCarried(probe.tool_context) # NoClaims)
       => LoadCompleteFor(probe.out.printed, ClaimsCarried(probe.tool_context))
  /\ (TwoCalls /\ probe.boot = EmptyStr /\ TruthyH(probe.inv.callback_context)
         /\ probe.first.claims # NoClaims)
       => LoadCompleteFor(probe.first.printed, probe.first.claims)

\* the six conditions of a call, in the order of evaluation; the ones that
\* are about the merged document hold only when there is one
Violations ==
  << IsSentinel(last.res.tenant),
     ~IsSentinel(last.res.tenant) /\ last.res.tenant \notin DOMAIN policy_cache,
     LastHasDocument /\ Strip(agent_id) \notin AgentIdsOf(LastDocument),
     LastHasDocument /\ last.inv.tool \notin ToolsOf(LastDocument, Strip(agent_id)),
     last.inv.tool = "call_remote_agent" /\ ~Truthy(AgentNameArg),
     /\ LastHasDocument
     /\ last.inv.tool = "call_remote_agent"
     /\ Strip(StrOf(AgentNameArg)) \notin LastDocument.valid_targets >>

ViolationReasons ==
  << "no_valid_tenant", "no_policy_for_tenant", "agent_not_defined",
     "tool_not_allowed", "missing_agent_name", "target_not_valid" >>

C26_CacheEntriesConsistent ==
  probe.op = "get_policy_for_tenant" =>
    \A k \in DOMAIN probe.cache :
      /\ probe.cache[k] # NoPolicy
      /\ probe.cache[k].tenant = k
      /\ probe.cache[k].valid_targets = AgentIdsOf(probe.cache[k])
      /\ \A i, j \in 1..Len(probe.cache[k].allowed_list) :
           probe.cache[k].allowed_list[i].agent_id
             = probe.cache[k].allowed_list[j].agent_id => i = j

\* the keys _check_tool_rule reads from a rule, and the violation each is for
CheckKeys ==
  [agent_not_allowed |-> {"allowed_agents"},
   task_length_exceeds |-> {"max_task_length"},
   authentication_required |-> {"requires_auth"},
   role_information_missing |-> {"required_roles", "required_role"},
   requires_roles |-> {"required_roles", "required_role"},
   limit_exceeds |-> {"max_results"}]

\* the length of the task argument, 0 for a missing one
TaskLength ==
  IF Truthy(ArgGet(probe.tool_args, "task"))
  THEN Len(ArgGet(probe.tool_args, "task").s) ELSE 0

\* the task is longer than the rule's integer bound
TaskTooLong ==
  /\ IsInt(RuleGet(probe.rule, "max_task_length"))
  /\ TaskLength > IntOf(RuleGet(probe.rule, "max_task_length"))

\* the limit argument is an integer above the rule's integer bound
LimitTooHigh ==
  /\ IsInt(RuleGet(probe.rule, "max_results"))
  /\ IsInt(ArgGet(probe.tool_args, "limit"))
  /\ IntOf(ArgGet(probe.tool_args, "limit")) > IntOf(RuleGet(probe.rule, "max_results"))

\* C27: a check whose key is absent from the rule yields no violation (a
\* rule with no recognized key none at all); the evaluation denies on
\* max_task_length iff the task is strictly longer than the bound (a
\* missing task has length 0) and on max_results iff the limit is an
\* integer strictly greater than the bound, a denial by a check that comes
\* earlier in the evaluation taking precedence.
C27_RuleChecks ==
  RuleProbed =>
    /\ ~probe.out.raised
    /\ \A v \in DOMAIN CheckKeys :
         CheckKeys[v] \cap DOMAIN probe.rule = {} => probe.out.violation # v
    /\ (UNION {CheckKeys[v] : v \in DOMAIN CheckKeys}) \cap DOMAIN probe.rule = {}
         => probe.out.violation = ""
    /\ probe.out.violation = "task_length_exceeds" => TaskTooLong
    /\ TaskTooLong => probe.out.violation \in {"agent_not_allowed", "task_length_exceeds"}
    /\ probe.out.violation = "limit_exceeds" => LimitTooHigh
    /\ LimitTooHigh => probe.out.violation # ""
    /\ DOMAIN probe.rule = {"max_task_length"}
         => (probe.out.violation = "task_length_exceeds" <=> TaskTooLong)
    /\ DOMAIN probe.rule = {"max_results"}
         => (probe.out.violation = "limit_exceeds" <=> LimitTooHigh)

\* a limit equal to the bound passes a rule that bounds only the results
C27_Witness ==
  /\ RuleProbed
  /\ probe.rule = [max_results |-> IntV(1)]
  /\ ArgGet(probe.tool_args, "limit") = IntV(1)
  /\ probe.out.violation = ""

\* ------------------------------------------------------------------
\* C29: before_model_callback returns None, and the auth_token it writes
\* into the state of the call, which call_remote_agent forwards as the
\* Authorization header, is a credential the call itself presents (direct
\* tunnel or call context), never one remembered from an earlier invocation;
\* a call that presents no credential leaves the state as it was
\* ------------------------------------------------------------------
ModelCalled == probe.op = "before_model"

\* the credential the call presents: what is located when nothing is remembered
Presented(direct, callback_context) ==
  extract_auth_token(direct, EmptyStr, EmptyStr, callback_context,
                     [k \in {} |-> NoneV]).tok

C29_OwnCredentialWritten ==
  ModelCalled =>
    /\ probe.out.ret = NoneV
    /\ ~probe.out.raised
    /\ probe.out.written # NoneV =>
         /\ Presented(probe.direct, probe.callback_context) # EmptyStr
         /\ probe.out.written = Str(Presented(probe.direct, probe.callback_context))
    /\ Presented(probe.direct, probe.callback_context) = EmptyStr =>
         (probe.out.written = NoneV /\ probe.forwarded = NoneV)

\* a call with an empty state and no credential on an instance that remembers one
C29_RememberedWritten ==
  /\ ModelCalled
  /\ Presented(probe.direct, probe.callback_context) = EmptyStr
  /\ probe.out.written # NoneV

\* ------------------------------------------------------------------
\* C28: under every interleaving of concurrent requests through
\* token_capture_middleware, the tunnel value read while a request is
\* handled is that request's own Authorization credential with the bearer
\* prefix stripped, or none when it has no Authorization header, never the
\* credential of another request; and when the request finishes, normally
\* or by exception, the tunnel is back at the value it had before
\* ------------------------------------------------------------------
\* the credential of a request, as the plugin cleans a header
HeaderCredential(auth_header) ==
  IF Truthy(auth_header) THEN Str(sanitize_bearer(auth_header)) ELSE NoneV

HasRead(r) == requests[r].pc \in {"read", "done"} /\ requests[r].seen.t # "unread"

C28_TunnelIsolated ==
  \A r \in RequestIds :
    /\ HasRead(r) => requests[r].seen = HeaderCredential(requests[r].auth_header)
    /\ requests[r].pc = "done" =>
         (requests[r].after = requests[r].before
          /\ tunnel[ContextOf(r)] = requests[r].before)

\* two requests with different credentials served at once: one has read
\* its own and ended by exception, the other has read its own meanwhile
C28_Witness ==
  \E r \in RequestIds, q \in RequestIds :
    /\ r # q
    /\ requests[r].pc = "done" /\ requests[r].outcome = "exception"
    /\ requests[r].seen = Str(<< "Ta" >>)
    /\ requests[q].pc = "read" /\ requests[q].overlapped
    /\ requests[q].seen = Str(<< "Tb" >>)

\* ------------------------------------------------------------------
\* C30: for the orchestrator's executor, after any sequence of execute
\* calls, _session_created implies that the session exists in the session
\* service (a create_session failure other than AlreadyExistsError does not
\* leave the flag set with no session), and every execute call enqueues
\* exactly one message
\* ------------------------------------------------------------------
C30_FlagImpliesSession ==
  /\ executor.session_created => SessionId \in executor.sessions
  /\ executor.call.op = "execute" => Len(executor.call.enqueued) = 1

\* an execute that skipped creation because of the flag and ran with no session
C30_NoSessionRun ==
  /\ executor.call.op = "execute"
  /\ ~executor.call.attempted
  /\ SessionId \notin executor.sessions

====
